---------------------------- MODULE Spec2Model ----------------------------
(***************************************************************************)
(* rpmControlledBatch of src/AINaming/geminiCaller.mjs: the sliding-window *)
(* rate limited, concurrency limited batch dispatcher.                     *)
(*                                                                         *)
(* One step of the model is one macrotask of the JavaScript event loop (a  *)
(* timer callback together with the microtasks it triggers, or the         *)
(* continuation that runs when an asyncFn promise settles), or the passage *)
(* of time.  Instants are kept relative to the current clock reading: a    *)
(* stored instant x stands for Date.now() + x, so x <= 0 is in the past.   *)
(* Task indices are 1..N here and 0..N-1 in the code.                      *)
(***************************************************************************)
EXTENDS Integers, Sequences, FiniteSets, TLC

(* ------------------------------ bounds -------------------------------- *)

\* Largest batch (fnArgs.length) explored.
MaxTasks == 2

\* Largest explicit value of options.rpm / options.maxConcurrent explored.
MaxOpt == 2

\* A stretch of time an asyncFn invocation may take, in ms.
TaskStep == 20000

(* ------------------------- program constants -------------------------- *)

windowDuration == 60000

DefaultRpm == 10

SlotBuffer == 100

CompleteDelay == 50

PollInterval == 100

DefaultRetryMs == 30000

TooManyRequests == 429

\* The defaults of BATCH_RPM, BATCH_MAX_CONCURRENT and GEMINI_TIMEOUT.
BatchRpm == 10

BatchMaxConcurrent == 3

GeminiTimeout == 30000

\* Math.max(0, NaN) is NaN; every other wait time is >= 0, so a negative
\* number stands for NaN.  NaN > 0 is false, as in JavaScript.
NaN == 0 - 1

Undefined == [tag |-> "undefined", kind |-> "-"]

Max(a, b) == IF a >= b THEN a ELSE b

Min(a, b) == IF a <= b THEN a ELSE b

(* ------------------------- the task function -------------------------- *)

\* What fnArgs[i] can be: a value that is not an array, or an argument
\* array.  asyncFn is deterministic: its outcome is decided by the arguments,
\* which are named after it.
ArgKinds ==
  { "notArray", "ok", "error", "null",
    "429:1s", "429:1.5s", "429:0.5s",
    "429:noDetails", "429:noRetryInfo", "429:noDelay", "429:badDelay",
    "429:numberDelay" }

\* Mutant of IsArray: the argument check lets everything through.
IsArrayAlways(args) == TRUE

\* Array.isArray(args)
IsArray(args) == args # "notArray"

\* A retryDelay field: a string "<ms/1000>s" (ms >= 0), a string without a
\* leading number (ms = NaN), a value that is not a string, or no field.
DelayString(ms) == [kind |-> "string", ms |-> ms]

DelayNumber == [kind |-> "number", ms |-> 0]

DelayMissing == [kind |-> "missing", ms |-> 0]

RetryInfoType == "type.googleapis.com/google.rpc.RetryInfo"

HelpType == "type.googleapis.com/google.rpc.Help"

\* An error value: nullish (null / undefined), or an object with a status
\* and, when hasDetails, an errorDetails array.
ErrorValue(nullish, status, hasDetails, details) ==
  [nullish |-> nullish, status |-> status, hasDetails |-> hasDetails,
   errorDetails |-> details]

PlainError == ErrorValue(FALSE, 0, FALSE, <<>>)

NullError == ErrorValue(TRUE, 0, FALSE, <<>>)

Throttle(delay) ==
  ErrorValue(FALSE, TooManyRequests, TRUE,
             << [type |-> HelpType, retryDelay |-> DelayMissing],
                [type |-> RetryInfoType, retryDelay |-> delay] >>)

\* The value asyncFn rejects with for the given arguments.
RejectionOf(args) ==
  CASE args = "error"           -> PlainError
    [] args = "null"            -> NullError
    [] args = "429:1s"          -> Throttle(DelayString(1000))
    [] args = "429:1.5s"        -> Throttle(DelayString(1500))
    [] args = "429:0.5s"        -> Throttle(DelayString(500))
    [] args = "429:noDetails"   -> ErrorValue(FALSE, TooManyRequests, FALSE, <<>>)
    [] args = "429:noRetryInfo" ->
         ErrorValue(FALSE, TooManyRequests, TRUE,
                    << [type |-> HelpType, retryDelay |-> DelayMissing] >>)
    [] args = "429:noDelay"     -> Throttle(DelayMissing)
    [] args = "429:badDelay"    -> Throttle(DelayString(NaN))
    [] args = "429:numberDelay" -> Throttle(DelayNumber)
    [] OTHER                    -> PlainError

\* The poems of the batch name generator (src/unnamed/part_000, part_002),
\* named after what callGeminiApi does for their prompt.
PoemKinds == { "poem:ok", "poem:429:1s" }

\* Whether callGeminiApi returns the parsed response for the poem.
ApiResolves(args) == args = "poem:ok"

\* The error callGeminiApi rethrows to its caller for the poem.
ApiRejectionOf(args) ==
  IF args = "poem:429:1s" THEN Throttle(DelayString(1000)) ELSE PlainError

\* The remote service never answers the request for the poem.
ApiHangs(args) == args = "poem:hang"

\* callGeminiApi(modelName, promptText) as generateNameForPoem calls it, with
\* config.gemini.timeout for a third argument: the function declares two
\* parameters and sets no timeout on the request, so the argument is not
\* read and the call is pending for as long as the request is.
CallGeminiApi(args, timeout) ==
  IF ApiHangs(args) THEN "pending"
  ELSE IF ApiResolves(args) THEN "returned"
  ELSE "thrown"

\* generateNameForPoem awaits callGeminiApi inside try and returns
\* { ..., success: true }; its catch returns { ..., error: error.message,
\* success: false }.  Its promise resolves when the call has settled.
GenerateNameForPoem(args) ==
  LET call == CallGeminiApi(args, GeminiTimeout) IN
  IF call = "pending" THEN [settles |-> "pending", success |-> FALSE]
  ELSE IF call = "returned" THEN [settles |-> "resolved", success |-> TRUE]
  ELSE [settles |-> "resolved", success |-> FALSE]

\* An invocation that never settles: its promise stays pending for good.
NeverSettles(args) ==
  args = "stuck" \/ GenerateNameForPoem(args).settles = "pending"

Resolves(args) ==
  \/ args = "ok"
  \/ args \in PoemKinds /\ GenerateNameForPoem(args).settles = "resolved"

\* The entry of results a settled invocation leaves.
ValueEntry(args) == [tag |-> "value", kind |-> args]

ErrorEntry(args) == [tag |-> "error", kind |-> args]


(* --------------------------- the 429 handling ------------------------- *)

\* parseInt(retryDelay.replace('s', '')) * 1000 for a string retryDelay:
\* parseInt keeps the leading whole number and drops the fraction.
ParseRetryDelayMs(delay) ==
  IF delay.ms = NaN THEN NaN ELSE (delay.ms \div 1000) * 1000

\* errorDetails.find(d => d['@type'] && d['@type'].includes('RetryInfo'))
FindRetryInfo(details) ==
  SelectSeq(details, LAMBDA d : d.type = RetryInfoType)

Truthy(delay) == delay.kind = "number" \/ (delay.kind = "string")

\* The pause, in ms, the catch block of executeTask applies for a rejection
\* (0: none).  A retryDelay that is no string makes .replace throw, and the
\* inner catch applies the default.
CooldownOf(error) ==
  IF error.status = TooManyRequests /\ error.hasDetails
  THEN LET found == FindRetryInfo(error.errorDetails) IN
       IF found # <<>> /\ Truthy(found[1].retryDelay)
       THEN LET delay == found[1].retryDelay IN
            IF delay.kind # "string"
            THEN DefaultRetryMs
            ELSE LET retryDelayMs == ParseRetryDelayMs(delay) IN
                 IF retryDelayMs > 0 THEN retryDelayMs ELSE 0
       ELSE 0
  ELSE 0

\* What the server advised (ms), when the rejection is a throttle signal
\* that carries a readable duration; 0 otherwise.
AdvisedDelay(error) ==
  IF error.nullish \/ error.status # TooManyRequests \/ ~error.hasDetails THEN 0
  ELSE LET found == FindRetryInfo(error.errorDetails) IN
       IF found # <<>> /\ found[1].retryDelay.kind = "string"
          /\ found[1].retryDelay.ms > 0
       THEN found[1].retryDelay.ms ELSE 0

\* The pause, in ms, the server advised in the failure behind a poem's
\* outcome; 0 when there was none.
ApiAdvice(args) ==
  IF args \in PoemKinds /\ ~ApiResolves(args)
  THEN AdvisedDelay(ApiRejectionOf(args)) ELSE 0

\* A throttle signal whose duration cannot be determined.
IsUndeterminedThrottle(error) ==
  /\ ~error.nullish
  /\ error.status = TooManyRequests
  /\ \/ ~error.hasDetails
     \/ FindRetryInfo(error.errorDetails) = <<>>
     \/ FindRetryInfo(error.errorDetails)[1].retryDelay.kind # "string"
     \/ FindRetryInfo(error.errorDetails)[1].retryDelay.ms = NaN

(* ------------------------------- options ------------------------------ *)

Omitted == [given |-> FALSE, val |-> 0]

Given(v) == [given |-> TRUE, val |-> v]

OptValues == {Omitted} \cup {Given(v) : v \in (0 - 1)..MaxOpt}

\* Mutant of OrDefault: no fallback, an omitted option reads as 0.
OrDefaultNoFallback(opt, d) == opt.val

\* x || d
OrDefault(opt, d) == IF ~opt.given \/ opt.val = 0 THEN d ELSE opt.val

(* -------------------------- the batch generator ----------------------- *)

\* Largest corpus the range selection is explored on.
MaxPoems == 4

\* A JavaScript number that is an integer, and the number NaN.
Number(v) == [nan |-> FALSE, val |-> v]

NotANumber == [nan |-> TRUE, val |-> 0]

\* An environment variable: not set (or empty), a string parseInt reads the
\* integer v from, or a string parseInt reads no number from.
EnvUnset == [set |-> FALSE, numeric |-> FALSE, val |-> 0]

EnvInt(v) == [set |-> TRUE, numeric |-> TRUE, val |-> v]

EnvText == [set |-> TRUE, numeric |-> FALSE, val |-> 0]

\* parseInt(process.env.X || "<default>")
ParseIntOr(env, default) ==
  IF ~env.set THEN Number(default)
  ELSE IF env.numeric THEN Number(env.val)
  ELSE NotANumber

\* config.batchProcess.startIndex || 0
StartIndexOf(configured) ==
  IF configured.nan \/ configured.val = 0 THEN 0 ELSE configured.val

\* Mutant of EndIndexOf: a negative end index is passed on to slice.
EndIndexOfAsIs(configured, length) ==
  IF configured.nan THEN NotANumber
  ELSE IF configured.val < 0 THEN Number(configured.val)
  ELSE Number(Min(configured.val, length))

\* config.batchProcess.endIndex < 0 ? poems.length
\*   : Math.min(config.batchProcess.endIndex, poems.length)
EndIndexOf(configured, length) ==
  IF configured.nan THEN NotANumber
  ELSE IF configured.val < 0 THEN Number(length)
  ELSE Number(Min(configured.val, length))

\* The index Array.prototype.slice takes for an argument: NaN counts as 0, a
\* negative one counts from the end, and the result is clamped to 0..length.
RelativeIndex(arg, length) ==
  IF arg.nan THEN 0
  ELSE IF arg.val < 0 THEN Max(length + arg.val, 0)
  ELSE Min(arg.val, length)

\* array.slice(start, end): the elements at the 0-based indices from start
\* up to end - 1.
Slice(array, start, end) ==
  SubSeq(array, RelativeIndex(start, Len(array)) + 1,
                RelativeIndex(end, Len(array)))

\* The characters the file name of a poem may not hold (the class
\* [\\/:*?"<>|] of the replace), as far as the titles explored use them.
Reserved == { "/", ":" }

\* name.replace(/[\\/:*?"<>|]/g, '_') on a string given by its characters
Sanitize(name) ==
  [k \in 1..Len(name) |-> IF name[k] \in Reserved THEN "_" ELSE name[k]]

\* `${poem.title}_${poem.author}.json`.replace(...): the output file of a poem
OutputFile(poem) ==
  Sanitize(poem.title \o << "_" >> \o poem.author \o << ".json" >>)

\* The titles and authors explored: two titles that differ in a reserved
\* character only, and two poems may carry one title and one author.
Titles == { << "a" >>, << "b", "/" >>, << "b", ":" >> }

Authors == { << "x" >> }

\* What the remote service does with the request for a poem.
ApiOutcomes == { "ok", "429:1s" }

\* The poems of a corpus file of at most n entries.
Corpora(n) ==
  UNION { [1..k -> [title : Titles, author : Authors, api : ApiOutcomes]]
          : k \in 0..n }

\* selectedPoems.filter(poem => !fs.existsSync(outputPath)): the positions
\* (in the corpus) of the selected poems without an output file.
PoemsToProcess(poems, selected, files) ==
  SelectSeq(selected, LAMBDA p : OutputFile(poems[p]) \notin files)

\* The state of a process that runs no batch generator.
NoGenerator ==
  [stage |-> "none", poems |-> <<>>, START_INDEX |-> EnvUnset,
   END_INDEX |-> EnvUnset, BATCH_RPM |-> EnvUnset,
   BATCH_MAX_CONCURRENT |-> EnvUnset, files |-> {}, selectedPoems |-> <<>>,
   poemsToProcess |-> <<>>, summary |-> <<>>]

\* The arguments generateNameForPoem is called with for a poem, by what the
\* remote service does with its request.
PoemArgs(poem) == "poem:" \o poem.api

\* generateNameForPoem for task i of the batch: fs.writeFileSync(outputPath)
\* once callGeminiApi has returned, nothing written when it threw.
WriteOutput(gen, i) ==
  IF i \in DOMAIN gen.poemsToProcess
       /\ ApiResolves(PoemArgs(gen.poems[gen.poemsToProcess[i]]))
  THEN [gen EXCEPT !.files = @ \cup {OutputFile(gen.poems[gen.poemsToProcess[i]])}]
  ELSE gen

(* ------------------------- the tone evaluation ------------------------ *)

\* Largest argument evaluateToneFluency3 is explored on (from 0).
MaxToneInput == 5

\* [1, 2, 3, 4]
Tones == { 1, 2, 3, 4 }

\* isPing = (tone) => tone === 1 || tone === 2
IsPing(tone) == tone = 1 \/ tone = 2

\* (xIsPing ? "P" : "Z")
PingZe(ping) == IF ping THEN "P" ELSE "Z"

idealPatterns ==
  { << "P", "P", "Z" >>, << "Z", "P", "P" >>, << "P", "Z", "P" >>,
    << "Z", "P", "Z" >> }

secondaryPatterns == { << "P", "Z", "Z" >>, << "Z", "Z", "P" >> }

Returned(v) == [thrown |-> FALSE, value |-> v]

\* throw new Error(...)
Thrown == [thrown |-> TRUE, value |-> 0]

\* Mutant of evaluateToneFluency3: the check of the ideal patterns is gone.
evaluateToneFluency3NoIdeal(a, b, c) ==
  IF a \notin Tones \/ b \notin Tones \/ c \notin Tones THEN Thrown
  ELSE LET pattern == << PingZe(IsPing(a)), PingZe(IsPing(b)), PingZe(IsPing(c)) >>
           sameConsecutive == (IF a = b THEN 1 ELSE 0) + (IF b = c THEN 1 ELSE 0) IN
       IF a = b /\ b = c THEN Returned(40)
       ELSE IF pattern \in secondaryPatterns THEN Returned(85)
       ELSE IF sameConsecutive = 1 THEN Returned(70)
       ELSE Returned(60)

\* evaluateToneFluency3(a, b, c): what it returns, or that it throws
evaluateToneFluency3(a, b, c) ==
  IF a \notin Tones \/ b \notin Tones \/ c \notin Tones THEN Thrown
  ELSE LET pattern == << PingZe(IsPing(a)), PingZe(IsPing(b)), PingZe(IsPing(c)) >>
           sameConsecutive == (IF a = b THEN 1 ELSE 0) + (IF b = c THEN 1 ELSE 0) IN
       IF a = b /\ b = c THEN Returned(40)
       ELSE IF pattern \in idealPatterns THEN Returned(100)
       ELSE IF pattern \in secondaryPatterns THEN Returned(85)
       ELSE IF sameConsecutive = 1 THEN Returned(70)
       ELSE Returned(60)

\* No call of evaluateToneFluency3 is made.
NoFluency == [a |-> 0, b |-> 0, c |-> 0, called |-> FALSE, outcome |-> Thrown]

(* -------------------------------- state ------------------------------- *)

VARIABLES
  options,            \* the options argument
  fnArgs,             \* the fnArgs argument
  rpm, maxConcurrent, \* the effective limits
  requestTimestamps,  \* the rate window, sorted ascending
  taskQueue,          \* indices not yet admitted, in order
  results,            \* the results array
  activeTaskCount,
  processingQueue,
  pc,                 \* the caller: "init", "polling", "returned"
  pollLeft,           \* ms until the completion poll's timer is due
  phase,              \* per task: pending, scheduled, waiting, running, settled
  waitLeft,           \* per waiting task: ms until its wait timer is due
  armed,              \* the wait timers pending, in the order they were set
  pqTimers,           \* ms until each setTimeout(processQueue) is due, sorted
  crashed,            \* the process ended on an unhandled rejection
  starts,             \* instants of the asyncFn invocations of the last window
  invoked,            \* per task: number of asyncFn invocations
  adviseLeft,         \* ms left of the pause the last throttle signals advised
  defaultLeft,        \* ms left of the default pause of undetermined signals
  blockLeft,          \* ms left of the pause the catch block has applied
  outOfOrder,         \* some task settled before a task submitted earlier
  other,              \* the local state of a second call in progress, if any
  requestsInWindow,   \* fixed-bucket variant: requests counted in the bucket
  windowStartTime,    \* fixed-bucket variant: the instant the bucket began
  executing,          \* fixed-bucket variant: the set of tasks in progress
  generator,          \* the batch generator around the call, if any
  fluency             \* a call of evaluateToneFluency3: arguments and outcome

\* The locals only the fixed-bucket variant of src/unnamed/part_000 has.
fixedVars == << requestsInWindow, windowStartTime, executing >>

vars ==
  << other, armed, options, generator, fluency, fixedVars, fnArgs, rpm, maxConcurrent, requestTimestamps, taskQueue,
     results, activeTaskCount, processingQueue, pc, pollLeft, phase,
     waitLeft, pqTimers, crashed, starts, invoked, adviseLeft, defaultLeft, blockLeft,
     outOfOrder >>

N == Len(fnArgs)

Tasks == 1..N

\* The argument lists of at most n entries over the given kinds.
ArgLists(kinds, n) == UNION { [1..k -> kinds] : k \in 0..n }

\* The kinds of the dispatcher's main specification: every path of
\* executeTask (bad arguments, success, failure, nullish rejection, a throttle
\* signal that blocks the window).
CoreKinds == { "notArray", "ok", "error", "null", "429:1s" }

\* Every shape of throttle signal, next to a success.
ThrottleKinds == ArgKinds \ { "notArray", "error", "null" }

ValidOptValues == { Given(v) : v \in 1..MaxOpt }

\* Mutant of NewTaskQueue: the indices in descending order.
NewTaskQueueReversed(n) == [i \in 1..n |-> n + 1 - i]

\* Array.from({ length: fnArgs.length }, (_, i) => i)
NewTaskQueue(n) == [i \in 1..n |-> i]

\* Mutant of NewResults: an array one entry too long.
NewResultsOneMore(n) == [i \in 1..(n + 1) |-> Undefined]

\* new Array(fnArgs.length)
NewResults(n) == [i \in 1..n |-> Undefined]

\* The locals of the call after lines 117-129, for the given arguments.
InitLocals(opts, args) ==
  /\ options = opts
  /\ fnArgs = args
  /\ rpm = OrDefault(options.rpm, DefaultRpm)
  /\ maxConcurrent = OrDefault(options.maxConcurrent, rpm)
  /\ requestTimestamps = <<>>
  /\ taskQueue = NewTaskQueue(Len(fnArgs))
  /\ results = NewResults(Len(fnArgs))
  /\ activeTaskCount = 0
  /\ processingQueue = FALSE
  /\ pc = "init"
  /\ pollLeft = 0
  /\ phase = [i \in 1..Len(fnArgs) |-> "pending"]
  /\ waitLeft = [i \in 1..Len(fnArgs) |-> 0]
  /\ armed = <<>>
  /\ pqTimers = <<>>
  /\ crashed = FALSE
  /\ starts = <<>>
  /\ invoked = [i \in 1..Len(fnArgs) |-> 0]
  /\ adviseLeft = 0
  /\ defaultLeft = 0
  /\ blockLeft = 0
  /\ requestsInWindow = 0
  /\ windowStartTime = 0
  /\ executing = {}
  /\ generator = NoGenerator
  /\ fluency = NoFluency
  /\ outOfOrder = FALSE

\* The state after lines 117-129 of the only call in progress.
InitWith(opts, args) == InitLocals(opts, args) /\ other = <<>>

(* --------------------------- the rate window -------------------------- *)

\* Mutant of Prune: a timestamp exactly one window old is kept (<= for <).
PruneInclusive(ts) == SelectSeq(ts, LAMBDA t : 0 - t <= windowDuration)

\* requestTimestamps.filter(ts => now - ts < windowDuration), now = 0
Prune(ts) == SelectSeq(ts, LAMBDA t : 0 - t < windowDuration)

\* push(x) followed by sort((a, b) => a - b)
RECURSIVE PushSorted(_, _)
PushSorted(ts, x) ==
  IF ts = <<>> THEN << x >>
  ELSE IF ts[Len(ts)] <= x THEN Append(ts, x)
  ELSE Append(PushSorted(SubSeq(ts, 1, Len(ts) - 1), x), ts[Len(ts)])

RECURSIVE PushTimes(_, _, _)
PushTimes(ts, x, n) ==
  IF n <= 0 THEN ts ELSE PushTimes(PushSorted(ts, x), x, n - 1)

\* Mutant of HasRoom: the capacity test off by one (<= for <).
HasRoomOffByOne(pruned) == Len(pruned) <= rpm

\* Whether the window, already pruned, has room for one more request.
HasRoom(pruned) == Len(pruned) < rpm

\* getTimeUntilNextSlot on the pruned window (now = 0).
WaitTime(pruned) ==
  IF HasRoom(pruned) THEN 0
  ELSE IF pruned = <<>> THEN NaN
  ELSE Max(0, (pruned[1] + windowDuration) - 0 + SlotBuffer)


(* ----------------------------- the dispatcher ------------------------- *)

\* Mutant of WriteResult: entries are stored in the order of completion, each
\* at the first index still empty.
WriteResultNextFree(res, taskIndex, entry) ==
  LET free == { k \in 1..Len(res) : res[k] = Undefined } IN
  IF free = {} THEN res
  ELSE [res EXCEPT ![CHOOSE k \in free : \A m \in free : k <= m] = entry]

\* Mutant of WriteResult: every entry lands at the first index.
WriteResultFirst(res, taskIndex, entry) == [res EXCEPT ![1] = entry]

\* Mutant of WriteResult: the entry lands at the next index.
WriteResultShifted(res, taskIndex, entry) ==
  [res EXCEPT ![(taskIndex % Len(res)) + 1] = entry]

\* results[taskIndex] = entry
WriteResult(res, taskIndex, entry) == [res EXCEPT ![taskIndex] = entry]

\* Mutant of CanAdmit: the slot test off by one (<= for <).
CanAdmitOffByOne(active, queue) == active <= maxConcurrent /\ Len(queue) > 0

\* Mutant of CanAdmit: one task at a time, whatever maxConcurrent is.
CanAdmitSerial(active, queue) == active < 1 /\ Len(queue) > 0

\* The while condition of processQueue.
CanAdmit(active, queue) == active < maxConcurrent /\ Len(queue) > 0

\* Mutant of Shift: the head is read and left in the queue.
ShiftKeep(queue) == queue

\* The queue after taskQueue.shift()
Shift(queue) == Tail(queue)

\* The while loop of processQueue on st = [ts, queue, active, sched, timers]:
\* sched collects the indices handed to setTimeout(executeTask, 0).
RECURSIVE ProcessQueueLoop(_)
ProcessQueueLoop(st) ==
  IF CanAdmit(st.active, st.queue)
  THEN LET pruned == Prune(st.ts)
           waitTime == WaitTime(pruned) IN
       IF waitTime > 0
       THEN [st EXCEPT !.ts = pruned, !.timers = PushSorted(@, waitTime)]
       ELSE ProcessQueueLoop([st EXCEPT !.ts = pruned,
                                        !.queue = Shift(@),
                                        !.active = @ + 1,
                                        !.sched = @ \cup {Head(st.queue)}])
  ELSE st

\* processQueue() run with the given processQueue timers pending.
ProcessQueue(timers) ==
  IF processingQueue
  THEN /\ pqTimers' = timers
       /\ UNCHANGED << requestTimestamps, taskQueue, activeTaskCount, phase >>
  ELSE LET st == ProcessQueueLoop([ts |-> requestTimestamps, queue |-> taskQueue,
                                   active |-> activeTaskCount, sched |-> {},
                                   timers |-> timers]) IN
       /\ requestTimestamps' = st.ts
       /\ taskQueue' = st.queue
       /\ activeTaskCount' = st.active
       /\ pqTimers' = st.timers
       /\ phase' = [i \in Tasks |-> IF i \in st.sched THEN "scheduled" ELSE phase[i]]

\* Mutant of Busy: the poll forgets the tasks in flight.
BusyQueueOnly(active, queue) == Len(queue) > 0

\* activeTaskCount > 0 || taskQueue.length > 0
Busy(active, queue) == active > 0 \/ Len(queue) > 0

\* The while condition of the completion poll.
StillBusy == Busy(activeTaskCount, taskQueue)

\* The same condition in the state processQueue() leads to.
StillBusyNext == Busy(activeTaskCount', taskQueue')

\* The call: processQueue(), then the first test of the completion poll.
Start ==
  /\ ~crashed
  /\ pc = "init"
  /\ ProcessQueue(pqTimers)
  /\ IF StillBusyNext
     THEN pc' = "polling" /\ pollLeft' = PollInterval
     ELSE pc' = "returned" /\ pollLeft' = 0
  /\ UNCHANGED << other, armed, options, generator, fluency, fixedVars, fnArgs, rpm, maxConcurrent, results, processingQueue,
                  waitLeft, crashed, starts, invoked, adviseLeft, defaultLeft, blockLeft,
                  outOfOrder >>

\* A setTimeout(processQueue) timer fires.
ProcessQueueTimer ==
  /\ ~crashed
  /\ pqTimers # <<>>
  /\ pqTimers[1] = 0
  /\ ProcessQueue(Tail(pqTimers))
  /\ UNCHANGED << other, armed, options, generator, fluency, fixedVars, fnArgs, rpm, maxConcurrent, results, processingQueue,
                  pc, pollLeft, waitLeft, crashed, starts, invoked, adviseLeft,
                  defaultLeft, blockLeft, outOfOrder >>

\* The wait timers pending once that of task i has fired.
Disarm(timers, i) == SelectSeq(timers, LAMBDA e : e.task # i)

\* Timers of one delay fire in the order they were set: no wait timer set
\* before that of task i with the same delay is still pending (it would be
\* due as well).
FiresFirst(timers, i) ==
  \A k \in 1..Len(timers) :
    timers[k].task = i \/
      \A m \in 1..Len(timers) :
        (timers[m].task = i /\ k < m) => timers[k].delay # timers[m].delay

\* acquireRateLimitSlot for task i, from its call or from the wake-up of its
\* wait; when it returns, asyncFn(...args) is invoked in the same macrotask.
AcquireRateLimitSlot(i) ==
  LET pruned == Prune(requestTimestamps)
      waitTime == WaitTime(pruned) IN
  IF waitTime > 0
  THEN /\ requestTimestamps' = pruned
       /\ phase' = [phase EXCEPT ![i] = "waiting"]
       /\ waitLeft' = [waitLeft EXCEPT ![i] = waitTime]
       /\ armed' = Append(Disarm(armed, i), [task |-> i, delay |-> waitTime])
       /\ UNCHANGED << starts, invoked >>
  ELSE /\ requestTimestamps' = PushSorted(pruned, 0)
       /\ phase' = [phase EXCEPT ![i] = "running"]
       /\ waitLeft' = [waitLeft EXCEPT ![i] = 0]
       /\ armed' = Disarm(armed, i)
       /\ starts' = Append(starts, 0)
       /\ invoked' = [invoked EXCEPT ![i] = @ + 1]

\* Some task submitted before task i has not settled yet.
EarlierUnsettled(i) == \E j \in Tasks : j < i /\ phase[j] # "settled"

\* Mutant of CompleteTask: the slot is given back and processQueue is not
\* scheduled.
CompleteTaskNoWake ==
  /\ activeTaskCount' = activeTaskCount - 1
  /\ pqTimers' = pqTimers

\* Mutant of CompleteTask: the slot is never given back.
CompleteTaskNoRelease ==
  /\ activeTaskCount' = activeTaskCount
  /\ pqTimers' = PushSorted(pqTimers, CompleteDelay)

\* Mutant of CompleteTask: the slot is given back twice.
CompleteTaskTwice ==
  /\ activeTaskCount' = activeTaskCount - 2
  /\ pqTimers' = PushSorted(pqTimers, CompleteDelay)

\* completeTask()
CompleteTask ==
  /\ activeTaskCount' = activeTaskCount - 1
  /\ pqTimers' = PushSorted(pqTimers, CompleteDelay)

\* A processQueue timer or a wait timer of the call is due.
TimerDue(queueTimers, phases, waits) ==
  \/ \E k \in 1..Len(queueTimers) : queueTimers[k] = 0
  \/ \E j \in DOMAIN phases : phases[j] = "waiting" /\ waits[j] = 0

\* The setTimeout(() => executeTask(taskIndex), 0) timer of task i fires.
\* Timers of one delay fire in the order they were set, which for these is
\* the order of the indices; and a timer set just now expires after every
\* timer that is already due, so those fire first.
ExecuteTask(i) ==
  /\ ~crashed
  /\ phase[i] = "scheduled"
  /\ \A j \in Tasks : j < i => phase[j] # "scheduled"
  /\ ~TimerDue(pqTimers, phase, waitLeft)
  /\ \A k \in 1..Len(other) :
       ~TimerDue(other[k].pqTimers, other[k].phase, other[k].waitLeft)
  /\ IF ~IsArray(fnArgs[i])
     THEN /\ results' = WriteResult(results, i, ErrorEntry(fnArgs[i]))
          /\ CompleteTask
          /\ phase' = [phase EXCEPT ![i] = "settled"]
          /\ UNCHANGED << requestTimestamps, waitLeft, armed, starts, invoked >>
     ELSE /\ AcquireRateLimitSlot(i)
          /\ UNCHANGED << results, activeTaskCount, pqTimers >>
  /\ outOfOrder' = (outOfOrder \/ (~IsArray(fnArgs[i]) /\ EarlierUnsettled(i)))
  /\ UNCHANGED << other, options, generator, fluency, fixedVars, fnArgs, rpm, maxConcurrent, taskQueue,
                  processingQueue, pc, pollLeft, crashed, adviseLeft,
                  defaultLeft, blockLeft >>

\* Mutant of WakeWaiter: a woken task takes the slot it waited for without
\* looking at the window again.
WakeWaiterNoRecheck(i) ==
  /\ ~crashed
  /\ phase[i] = "waiting"
  /\ waitLeft[i] = 0
  /\ FiresFirst(armed, i)
  /\ armed' = Disarm(armed, i)
  /\ requestTimestamps' = PushSorted(requestTimestamps, 0)
  /\ phase' = [phase EXCEPT ![i] = "running"]
  /\ starts' = Append(starts, 0)
  /\ invoked' = [invoked EXCEPT ![i] = @ + 1]
  /\ UNCHANGED << other, options, generator, fluency, fixedVars, fnArgs, rpm, maxConcurrent, taskQueue, results,
                  activeTaskCount, processingQueue, pc, pollLeft, pqTimers,
                  crashed, adviseLeft, defaultLeft, blockLeft, outOfOrder, waitLeft >>

\* The wait timer of acquireRateLimitSlot of task i fires.
WakeWaiter(i) ==
  /\ ~crashed
  /\ phase[i] = "waiting"
  /\ waitLeft[i] = 0
  /\ FiresFirst(armed, i)
  /\ AcquireRateLimitSlot(i)
  /\ UNCHANGED << other, options, generator, fluency, fixedVars, fnArgs, rpm, maxConcurrent, taskQueue, results,
                  activeTaskCount, processingQueue, pc, pollLeft, pqTimers,
                  crashed, adviseLeft, defaultLeft, blockLeft, outOfOrder >>

\* Mutant of BlockWindow: the blocking timestamps of a new signal take the
\* place of the window instead of joining it.
BlockWindowReplace(ts, error) ==
  LET pause == CooldownOf(error) IN
  IF pause > 0
  THEN PushTimes(<<>>, 0 - windowDuration + pause, rpm)
  ELSE ts

\* The window after the catch block handled a rejection (now = 0).
BlockWindow(ts, error) ==
  LET pause == CooldownOf(error) IN
  IF pause > 0
  THEN PushTimes(ts, 0 - windowDuration + pause, rpm)
  ELSE ts

\* The asyncFn invocation of task i settles and executeTask resumes.
Settle(i) ==
  /\ ~crashed
  /\ phase[i] = "running"
  /\ ~NeverSettles(fnArgs[i])
  /\ phase' = [phase EXCEPT ![i] = "settled"]
  /\ CompleteTask
  /\ IF Resolves(fnArgs[i])
     THEN /\ results' = WriteResult(results, i, ValueEntry(fnArgs[i]))
          /\ adviseLeft' = Max(adviseLeft, ApiAdvice(fnArgs[i]))
          /\ UNCHANGED << requestTimestamps, crashed, defaultLeft, blockLeft >>
     ELSE LET error == RejectionOf(fnArgs[i]) IN
          /\ results' = WriteResult(results, i, ErrorEntry(fnArgs[i]))
          /\ IF error.nullish
             THEN \* error.status throws a TypeError inside the catch block:
                  \* finally runs, and the rejection of executeTask's promise
                  \* is handled by nobody.  The runtime ends the process
                  \* (Node's default since version 15) or only warns.
                  /\ crashed' \in BOOLEAN
                  /\ UNCHANGED << requestTimestamps, adviseLeft, defaultLeft, blockLeft >>
             ELSE /\ requestTimestamps' = BlockWindow(requestTimestamps, error)
                  /\ adviseLeft' = Max(adviseLeft, AdvisedDelay(error))
                  /\ defaultLeft' =
                       IF IsUndeterminedThrottle(error)
                       THEN DefaultRetryMs ELSE defaultLeft
                  /\ blockLeft' = Max(blockLeft, CooldownOf(error))
                  /\ UNCHANGED crashed
  /\ outOfOrder' = (outOfOrder \/ EarlierUnsettled(i))
  /\ generator' = WriteOutput(generator, i)
  /\ UNCHANGED << other, armed, options, fluency, fixedVars, fnArgs, rpm, maxConcurrent, taskQueue,
                  processingQueue, pc, pollLeft, waitLeft, starts, invoked >>

\* The timer of the completion poll fires.
PollCheck ==
  /\ ~crashed
  /\ pc = "polling"
  /\ pollLeft = 0
  /\ IF StillBusy
     THEN pc' = "polling" /\ pollLeft' = PollInterval
     ELSE pc' = "returned" /\ pollLeft' = 0
  /\ UNCHANGED << other, armed, options, generator, fluency, fixedVars, fnArgs, rpm, maxConcurrent, requestTimestamps,
                  taskQueue, results, activeTaskCount, processingQueue, phase,
                  waitLeft, pqTimers, crashed, starts, invoked, adviseLeft,
                  defaultLeft, blockLeft, outOfOrder >>

(* ---------------------------- a second call --------------------------- *)

\* The locals of the call whose macrotask is running (lines 118-129),
\* together with what the model records about that call.
CallState ==
  [options |-> options, fnArgs |-> fnArgs, rpm |-> rpm,
   maxConcurrent |-> maxConcurrent, requestTimestamps |-> requestTimestamps,
   taskQueue |-> taskQueue, results |-> results,
   activeTaskCount |-> activeTaskCount, processingQueue |-> processingQueue,
   pc |-> pc, pollLeft |-> pollLeft, phase |-> phase, waitLeft |-> waitLeft,
   armed |-> armed, pqTimers |-> pqTimers, starts |-> starts, invoked |-> invoked,
   adviseLeft |-> adviseLeft, defaultLeft |-> defaultLeft,
   blockLeft |-> blockLeft,
   outOfOrder |-> outOfOrder]

\* The locals of a call right after lines 117-129.
NewCall(opts, args) ==
  [options |-> opts, fnArgs |-> args, rpm |-> OrDefault(opts.rpm, DefaultRpm),
   maxConcurrent |->
     OrDefault(opts.maxConcurrent, OrDefault(opts.rpm, DefaultRpm)),
   requestTimestamps |-> <<>>,
   taskQueue |-> NewTaskQueue(Len(args)), results |-> NewResults(Len(args)),
   activeTaskCount |-> 0, processingQueue |-> FALSE,
   pc |-> "init", pollLeft |-> 0,
   phase |-> [i \in 1..Len(args) |-> "pending"],
   waitLeft |-> [i \in 1..Len(args) |-> 0], armed |-> <<>>,
   pqTimers |-> <<>>, starts |-> <<>>,
   invoked |-> [i \in 1..Len(args) |-> 0],
   adviseLeft |-> 0, defaultLeft |-> 0, blockLeft |-> 0,
   outOfOrder |-> FALSE]

\* Mutant of WindowOf: one window for the whole module, shared by the calls.
WindowOfShared(call) == requestTimestamps

\* The rate window the closures of a call refer to: requestTimestamps is
\* declared inside rpmControlledBatch, one array per call.
WindowOf(call) == call.requestTimestamps

\* The event loop turns to a macrotask of the other call: its locals come
\* into view and those of the call that ran last are set aside.
Switch ==
  /\ ~crashed
  /\ other # <<>>
  /\ other' = << CallState >>
  /\ LET call == other[1] IN
     /\ options' = call.options
     /\ fnArgs' = call.fnArgs
     /\ rpm' = call.rpm
     /\ maxConcurrent' = call.maxConcurrent
     /\ requestTimestamps' = WindowOf(call)
     /\ taskQueue' = call.taskQueue
     /\ results' = call.results
     /\ activeTaskCount' = call.activeTaskCount
     /\ processingQueue' = call.processingQueue
     /\ pc' = call.pc
     /\ pollLeft' = call.pollLeft
     /\ phase' = call.phase
     /\ waitLeft' = call.waitLeft
     /\ armed' = call.armed
     /\ pqTimers' = call.pqTimers
     /\ starts' = call.starts
     /\ invoked' = call.invoked
     /\ adviseLeft' = call.adviseLeft
     /\ defaultLeft' = call.defaultLeft
     /\ blockLeft' = call.blockLeft
     /\ outOfOrder' = call.outOfOrder
  /\ UNCHANGED << crashed, fixedVars, generator, fluency >>

(* -------------------------------- time -------------------------------- *)

SeqRange(s) == { s[k] : k \in 1..Len(s) }

\* The ms left on the dispatcher's timers: executeTask timers are due at
\* once, processQueue and wait timers when their delay has passed.
TimersLeft ==
  SeqRange(pqTimers)
    \cup { waitLeft[i] : i \in { j \in Tasks : phase[j] = "waiting" } }
    \cup { 0 : i \in { j \in Tasks : phase[j] = "scheduled" } }

\* TimersLeft, for a call that is set aside.
TimersLeftOf(call) ==
  SeqRange(call.pqTimers)
    \cup { call.waitLeft[i] :
             i \in { j \in DOMAIN call.phase : call.phase[j] = "waiting" } }
    \cup { 0 : i \in { j \in DOMAIN call.phase : call.phase[j] = "scheduled" } }

\* The instants at which something changes for a call that is set aside.
EventsOf(call) ==
  TimersLeftOf(call)
    \cup { windowDuration + t : t \in SeqRange(WindowOf(call)) }
    \cup (IF call.pc = "polling" /\ ~Busy(call.activeTaskCount, call.taskQueue)
          THEN {call.pollLeft} ELSE {})
    \cup (IF \E i \in DOMAIN call.phase : call.phase[i] = "running"
          THEN {TaskStep} ELSE {})

\* The next instants at which something changes: a dispatcher timer comes
\* due, a timestamp leaves the window, the poll comes due with every task
\* settled, or a running invocation has taken TaskStep longer.  Time moves
\* from one such instant to another and never past a dispatcher timer: those
\* fire when they are due.  The completion poll, which only reads the
\* state, may find its timer fired late.
Jumps ==
  { d \in TimersLeft
          \cup { windowDuration + t : t \in SeqRange(requestTimestamps) }
          \cup (IF pc = "polling" /\ ~StillBusy THEN {pollLeft} ELSE {})
          \cup (IF \E i \in Tasks : phase[i] = "running" THEN {TaskStep} ELSE {})
          \cup UNION { EventsOf(call) : call \in SeqRange(other) }
    : /\ d > 0
      /\ \A left \in TimersLeft : d <= left
      /\ \A call \in SeqRange(other) : \A left \in TimersLeftOf(call) : d <= left }

Elapse(left, d) == Max(0, left - d)

\* d ms pass for a call that is set aside.
ElapseCall(call, d) ==
  [call EXCEPT
     !.requestTimestamps =
        [k \in 1..Len(@) |-> Max(0 - windowDuration, @[k] - d)],
     !.starts = SelectSeq([k \in 1..Len(@) |-> @[k] - d],
                          LAMBDA t : 0 - t < windowDuration),
     !.pqTimers = [k \in 1..Len(@) |-> Elapse(@[k], d)],
     !.waitLeft = [i \in DOMAIN @ |-> Elapse(@[i], d)],
     !.pollLeft = Elapse(@, d),
     !.adviseLeft = Elapse(@, d),
     !.defaultLeft = Elapse(@, d),
     !.blockLeft = Elapse(@, d)]

\* d ms pass.  A timestamp that has left the window stays out of it.
Advance(d) ==
  /\ ~crashed
  /\ d \in Jumps
  /\ requestTimestamps' =
       [k \in 1..Len(requestTimestamps) |->
          Max(0 - windowDuration, requestTimestamps[k] - d)]
  /\ starts' = SelectSeq([k \in 1..Len(starts) |-> starts[k] - d],
                         LAMBDA t : 0 - t < windowDuration)
  /\ pqTimers' = [k \in 1..Len(pqTimers) |-> Elapse(pqTimers[k], d)]
  /\ waitLeft' = [i \in Tasks |-> Elapse(waitLeft[i], d)]
  /\ pollLeft' = Elapse(pollLeft, d)
  /\ adviseLeft' = Elapse(adviseLeft, d)
  /\ defaultLeft' = Elapse(defaultLeft, d)
  /\ blockLeft' = Elapse(blockLeft, d)
  /\ other' = [k \in 1..Len(other) |-> ElapseCall(other[k], d)]
  /\ UNCHANGED << armed, options, generator, fluency, fixedVars, fnArgs, rpm, maxConcurrent, taskQueue, results,
                  activeTaskCount, processingQueue, pc, phase, crashed, invoked,
                  outOfOrder >>

Next ==
  \/ Start
  \/ ProcessQueueTimer
  \/ \E i \in Tasks : ExecuteTask(i)
  \/ \E i \in Tasks : WakeWaiter(i)
  \/ \E i \in Tasks : Settle(i)
  \/ PollCheck
  \/ \E d \in Jumps : Advance(d)

Init ==
  \E opts \in [rpm : ValidOptValues, maxConcurrent : ValidOptValues],
     args \in ArgLists(CoreKinds, MaxTasks) : InitWith(opts, args)

\* Positive limits, batches over the core kinds.
Spec == Init /\ [][Next]_vars

InitThrottle ==
  \E opts \in [rpm : ValidOptValues, maxConcurrent : ValidOptValues],
     args \in ArgLists(ThrottleKinds, MaxTasks) : InitWith(opts, args)

\* Positive limits, batches over every shape of throttle signal.
SpecThrottle == InitThrottle /\ [][Next]_vars

InitOptions ==
  \E opts \in [rpm : OptValues, maxConcurrent : OptValues],
     args \in ArgLists({"ok", "error"}, MaxTasks) : InitWith(opts, args)

\* Every value of the options, valid or not.
SpecOptions == InitOptions /\ [][Next]_vars

\* rpm left out, on a batch one task longer than the default rpm, its tasks
\* run one at a time; every choice of leaving an option out, on a short
\* batch.  Every task succeeds.
InitDefaults ==
  \/ InitWith([rpm |-> Omitted, maxConcurrent |-> Given(1)],
              [i \in 1..(DefaultRpm + 1) |-> "ok"])
  \/ \E opts \in [rpm : {Omitted, Given(1)},
                   maxConcurrent : {Omitted, Given(MaxOpt)}] :
       InitWith(opts, [i \in 1..MaxTasks |-> "ok"])

\* The default limits at work.
SpecDefaults == InitDefaults /\ [][Next]_vars

\* Batches one task longer than MaxTasks, every task succeeding, under an
\* rpm the batch exceeds and a maxConcurrent up to the length of the batch.
InitLong ==
  \E opts \in [rpm : ValidOptValues,
               maxConcurrent : { Given(v) : v \in 1..(MaxTasks + 1) }] :
    InitWith(opts, [i \in 1..(MaxTasks + 1) |-> "ok"])

\* Positive limits, a batch longer than the window.
SpecLong == InitLong /\ [][Next]_vars

InitPoems ==
  \E opts \in [rpm : ValidOptValues, maxConcurrent : ValidOptValues],
     args \in ArgLists(PoemKinds, MaxTasks) : InitWith(opts, args)

\* The batch name generator: asyncFn is generateNameForPoem.
SpecPoems == InitPoems /\ [][Next]_vars

\* A batch one task longer than MaxTasks in which one invocation never
\* settles and the others succeed.
InitStuck ==
  \E opts \in [rpm : ValidOptValues, maxConcurrent : ValidOptValues],
     k \in 1..(MaxTasks + 1) :
    InitWith(opts, [i \in 1..(MaxTasks + 1) |-> IF i = k THEN "stuck" ELSE "ok"])

\* The event loop runs every timer that is due, time passes, and every
\* invocation that can settle does.
Fairness ==
  /\ WF_vars(Start)
  /\ WF_vars(ProcessQueueTimer)
  /\ WF_vars(\E i \in Tasks : ExecuteTask(i))
  /\ WF_vars(\E i \in Tasks : WakeWaiter(i))
  /\ WF_vars(\E i \in Tasks : Settle(i))
  /\ WF_vars(PollCheck)
  /\ WF_vars(\E d \in Jumps : Advance(d))

\* A batch with a stuck task, run to the end.
SpecStuck == InitStuck /\ [][Next]_vars /\ Fairness

\* Throttle signals of different pauses: 1 s as advised, 30 s by default.
CooldownKinds == { "429:1s", "429:numberDelay" }

\* Batches one task longer than MaxTasks: two throttle signals, then
\* successes.
InitCooldown ==
  \E opts \in [rpm : ValidOptValues, maxConcurrent : ValidOptValues],
     first \in CooldownKinds, second \in CooldownKinds :
    InitWith(opts, [i \in 1..(MaxTasks + 1) |->
                      IF i = 1 THEN first ELSE IF i = 2 THEN second ELSE "ok"])

\* Positive limits, batches in which a long pause may be followed by a
\* shorter one while tasks are pending.
SpecCooldown == InitCooldown /\ [][Next]_vars

\* Every step of one call, or of the other.
NextTwo == Next \/ Switch

\* Two calls in progress at once, each with rpm = 1: one with two tasks
\* that may run together, a success and a throttle signal in either order,
\* and one with a single task that draws a throttle signal.
InitTwo ==
  \E args \in { <<"ok", "429:1s">>, <<"429:1s", "ok">> },
     args2 \in { <<"429:1s">> } :
    /\ InitLocals([rpm |-> Given(1), maxConcurrent |-> Given(MaxOpt)], args)
    /\ other = << NewCall([rpm |-> Given(1), maxConcurrent |-> Given(1)], args2) >>

\* Two concurrent calls of rpmControlledBatch.
SpecTwo == InitTwo /\ [][NextTwo]_vars

(* --------------------- the batch generator: its run ------------------- *)

\* The locals of the call of rpmControlledBatch that begins.
Enter(call) ==
  /\ options' = call.options
  /\ fnArgs' = call.fnArgs
  /\ rpm' = call.rpm
  /\ maxConcurrent' = call.maxConcurrent
  /\ requestTimestamps' = call.requestTimestamps
  /\ taskQueue' = call.taskQueue
  /\ results' = call.results
  /\ activeTaskCount' = call.activeTaskCount
  /\ processingQueue' = call.processingQueue
  /\ pc' = call.pc
  /\ pollLeft' = call.pollLeft
  /\ phase' = call.phase
  /\ waitLeft' = call.waitLeft
  /\ armed' = call.armed
  /\ pqTimers' = call.pqTimers
  /\ starts' = call.starts
  /\ invoked' = call.invoked
  /\ adviseLeft' = call.adviseLeft
  /\ defaultLeft' = call.defaultLeft
  /\ blockLeft' = call.blockLeft
  /\ outOfOrder' = call.outOfOrder

\* The positions 1..length of the corpus, in order.
Positions(length) == [k \in 1..length |-> k]

\* An option of the call read from the environment; NaN is falsy like 0.
OptionOf(number) == Given(IF number.nan THEN 0 ELSE number.val)

\* poems.slice(startIndex, endIndex), as positions of the corpus
SelectedPoems(gen) ==
  Slice(Positions(Len(gen.poems)),
        Number(StartIndexOf(ParseIntOr(gen.START_INDEX, 0))),
        EndIndexOf(ParseIntOr(gen.END_INDEX, 0 - 1), Len(gen.poems)))

\* batchGenerateNamesFromPoems up to its call of rpmControlledBatch: the
\* range is selected, the poems with an output file are left out and the
\* rest is submitted.
BatchGenerate ==
  /\ ~crashed
  /\ generator.stage = "start"
  /\ LET selected == SelectedPoems(generator)
         toProcess == PoemsToProcess(generator.poems, selected, generator.files)
         batchArgs == [i \in 1..Len(toProcess) |->
                         PoemArgs(generator.poems[toProcess[i]])]
         opts == [rpm |-> OptionOf(ParseIntOr(generator.BATCH_RPM, BatchRpm)),
                  maxConcurrent |->
                    OptionOf(ParseIntOr(generator.BATCH_MAX_CONCURRENT,
                                        BatchMaxConcurrent))] IN
     /\ generator' = [generator EXCEPT !.stage = "batch",
                                       !.selectedPoems = selected,
                                       !.poemsToProcess = toProcess]
     /\ Enter(NewCall(opts, batchArgs))
  /\ UNCHANGED << other, crashed, fixedVars, fluency >>

\* r && r.success for an entry of the results
Success(entry) ==
  entry.tag = "value" /\ GenerateNameForPoem(entry.kind).success

\* The object written to summary.json.
Summary(gen, res) ==
  LET successCount == Cardinality({ i \in 1..Len(res) : Success(res[i]) }) IN
  [totalPoems |-> Len(gen.selectedPoems), successCount |-> successCount,
   failCount |-> Len(res) - successCount, results |-> res]

\* rpmControlledBatch has returned: the results are counted and
\* summary.json is written.
WriteSummary ==
  /\ ~crashed
  /\ generator.stage = "batch"
  /\ pc = "returned"
  /\ generator' = [generator EXCEPT !.stage = "done",
                                    !.summary = << Summary(generator, results) >>]
  /\ UNCHANGED << other, armed, options, fluency, fixedVars, fnArgs, rpm, maxConcurrent,
                  requestTimestamps, taskQueue, results, activeTaskCount,
                  processingQueue, pc, pollLeft, phase, waitLeft, pqTimers,
                  crashed, starts, invoked, adviseLeft, defaultLeft, blockLeft,
                  outOfOrder >>

NextBatch ==
  \/ BatchGenerate
  \/ Next
  \/ WriteSummary

\* The process before rpmControlledBatch is called: no call has locals.
NotCalled ==
  /\ options = [rpm |-> Omitted, maxConcurrent |-> Omitted]
  /\ fnArgs = <<>>
  /\ rpm = 0
  /\ maxConcurrent = 0
  /\ requestTimestamps = <<>>
  /\ taskQueue = <<>>
  /\ results = <<>>
  /\ activeTaskCount = 0
  /\ processingQueue = FALSE
  /\ pc = "idle"
  /\ pollLeft = 0
  /\ phase = <<>>
  /\ waitLeft = <<>>
  /\ armed = <<>>
  /\ pqTimers = <<>>
  /\ crashed = FALSE
  /\ starts = <<>>
  /\ invoked = <<>>
  /\ adviseLeft = 0
  /\ defaultLeft = 0
  /\ blockLeft = 0
  /\ requestsInWindow = 0
  /\ windowStartTime = 0
  /\ executing = {}
  /\ outOfOrder = FALSE
  /\ other = <<>>

\* The output files there may be when a run starts.
OutputFiles == { OutputFile(poem) : poem \in [title : Titles, author : Authors] }

\* The generator started on the whole of a corpus of at most MaxTasks poems,
\* with any of the output files present, at the default rate or at one
\* request per minute.
InitBatch ==
  /\ NotCalled
  /\ fluency = NoFluency
  /\ \E poems \in Corpora(MaxTasks), files \in SUBSET OutputFiles,
        perMinute \in { EnvUnset, EnvInt(1) } :
       generator = [stage |-> "start", poems |-> poems,
                    START_INDEX |-> EnvUnset, END_INDEX |-> EnvUnset,
                    BATCH_RPM |-> perMinute, BATCH_MAX_CONCURRENT |-> EnvUnset,
                    files |-> files, selectedPoems |-> <<>>,
                    poemsToProcess |-> <<>>, summary |-> <<>>]

SpecBatch == InitBatch /\ [][NextBatch]_vars

\* The values START_INDEX and END_INDEX are explored over: not set, not a
\* number, and the integers from below 0 to beyond the corpus.
IndexSettings ==
  { EnvUnset, EnvText } \cup { EnvInt(v) : v \in (0 - 2)..(MaxPoems + 1) }

\* A corpus of the given length, its titles alternating.
CorpusOf(length) ==
  [k \in 1..length |->
     [title |-> IF k % 2 = 1 THEN << "a" >> ELSE << "b", "/" >>,
      author |-> << "x" >>, api |-> "ok"]]

\* The generator started on a corpus of at most MaxPoems poems with any
\* setting of START_INDEX and END_INDEX and any of the output files present.
InitSelect ==
  /\ NotCalled
  /\ fluency = NoFluency
  /\ \E length \in 0..MaxPoems, start \in IndexSettings, end \in IndexSettings,
        files \in SUBSET OutputFiles :
       generator = [stage |-> "start", poems |-> CorpusOf(length),
                    START_INDEX |-> start, END_INDEX |-> end,
                    BATCH_RPM |-> EnvUnset, BATCH_MAX_CONCURRENT |-> EnvUnset,
                    files |-> files, selectedPoems |-> <<>>,
                    poemsToProcess |-> <<>>, summary |-> <<>>]

\* The selection and submission of the batch generator on its own.
SpecSelect == InitSelect /\ [][BatchGenerate]_vars

\* The generator started on the whole of a corpus of at most MaxTasks poems
\* with titles of their own, the remote service answering a request or not.
InitTimeout ==
  /\ NotCalled
  /\ fluency = NoFluency
  /\ \E answers \in UNION { [1..k -> { "ok", "hang" }] : k \in 0..MaxTasks },
        perMinute \in { EnvUnset, EnvInt(1) } :
       generator = [stage |-> "start",
                    poems |-> [k \in DOMAIN answers |->
                                 [CorpusOf(Len(answers))[k] EXCEPT
                                    !.api = answers[k]]],
                    START_INDEX |-> EnvUnset, END_INDEX |-> EnvUnset,
                    BATCH_RPM |-> perMinute, BATCH_MAX_CONCURRENT |-> EnvUnset,
                    files |-> {}, selectedPoems |-> <<>>,
                    poemsToProcess |-> <<>>, summary |-> <<>>]

\* The batch generator with requests that are never answered.
SpecTimeout == InitTimeout /\ [][NextBatch]_vars

(* ----------------------- the tone evaluation: a call ------------------ *)

\* evaluateToneFluency3 is called with the arguments chosen.
Evaluate ==
  /\ ~fluency.called
  /\ generator.stage = "none"
  /\ pc = "idle"
  /\ fluency' = [fluency EXCEPT
                   !.called = TRUE,
                   !.outcome = evaluateToneFluency3(fluency.a, fluency.b, fluency.c)]
  /\ UNCHANGED << other, armed, options, generator, fixedVars, fnArgs, rpm,
                  maxConcurrent, requestTimestamps, taskQueue, results,
                  activeTaskCount, processingQueue, pc, pollLeft, phase,
                  waitLeft, pqTimers, crashed, starts, invoked, adviseLeft,
                  defaultLeft, blockLeft, outOfOrder >>

\* The arguments of a call: the tones and the integers around them.
ToneInputs == 0..MaxToneInput

InitTone ==
  /\ NotCalled
  /\ generator = NoGenerator
  /\ \E a \in ToneInputs, b \in ToneInputs, c \in ToneInputs :
       fluency = [a |-> a, b |-> b, c |-> c, called |-> FALSE, outcome |-> Thrown]

\* evaluateToneFluency3 called once on any arguments.
SpecTone == InitTone /\ [][Evaluate]_vars

(* ----------------------- the fixed-bucket variant --------------------- *)

(***************************************************************************)
(* rpmControlledBatch of src/unnamed/part_000: requests are counted in a   *)
(* bucket of 60 s that restarts when it is found to have run out.  It      *)
(* shares fnArgs, options, rpm, maxConcurrent, taskQueue, results, pc,     *)
(* pollLeft, phase, waitLeft, starts and invoked with the model above; a   *)
(* task is "pending" in the queue, "waiting" for the next bucket,          *)
(* "running" or "settled".                                                 *)
(***************************************************************************)


\* Mutant of InitialBatchSize: the whole queue is started at once.
InitialBatchSizeAll(queue) == Len(queue)

\* Math.min(maxConcurrent, taskQueue.length)
InitialBatchSize(queue) == Min(maxConcurrent, Len(queue))

\* The locals executeTask works on.
FixedState ==
  [queue |-> taskQueue, results |-> results, executing |-> executing,
   requestsInWindow |-> requestsInWindow, windowStartTime |-> windowStartTime,
   phase |-> phase, waitLeft |-> waitLeft, starts |-> starts,
   invoked |-> invoked]

\* requestsInWindow++ and the call asyncFn(...args) for task i.
FixedInvoke(st, i) ==
  [st EXCEPT !.requestsInWindow = @ + 1,
             !.phase = [@ EXCEPT ![i] = "running"],
             !.waitLeft = [@ EXCEPT ![i] = 0],
             !.starts = Append(@, 0),
             !.invoked = [@ EXCEPT ![i] = @ + 1]]

RECURSIVE FixedExecuteTask(_, _), FixedShiftNext(_)

\* executeTask(i) up to its first await (now = 0): the argument check, then
\* the bucket check, which restarts a bucket that has run out, puts the task
\* to sleep until the bucket ends when it is full, and otherwise counts the
\* request and invokes asyncFn.
FixedExecuteTask(st, i) ==
  IF ~IsArray(fnArgs[i])
  THEN FixedShiftNext(
         [st EXCEPT !.results = WriteResult(@, i, ErrorEntry(fnArgs[i])),
                    !.executing = @ \ {i},
                    !.phase = [@ EXCEPT ![i] = "settled"]])
  ELSE LET timeElapsed == 0 - st.windowStartTime IN
       IF timeElapsed >= windowDuration
       THEN FixedInvoke([st EXCEPT !.windowStartTime = 0,
                                   !.requestsInWindow = 0], i)
       ELSE IF st.requestsInWindow >= rpm
       THEN [st EXCEPT !.phase = [@ EXCEPT ![i] = "waiting"],
                       !.waitLeft = [@ EXCEPT ![i] = windowDuration - timeElapsed]]
       ELSE FixedInvoke(st, i)

\* const nextIndex = taskQueue.shift(); if (nextIndex !== undefined)
\* { executing.add(nextIndex); executeTask(nextIndex); }
FixedShiftNext(st) ==
  IF st.queue = <<>> THEN st
  ELSE FixedExecuteTask([st EXCEPT !.queue = Tail(@),
                                   !.executing = @ \cup {Head(st.queue)}],
                        Head(st.queue))

\* Mutant of FixedFinally: the task leaves executing and starts no successor.
FixedFinallyNoNext(st, i) == [st EXCEPT !.executing = @ \ {i}]

\* The finally block of executeTask(i): executing.delete(taskIndex), then
\* the next task of the queue.
FixedFinally(st, i) == FixedShiftNext([st EXCEPT !.executing = @ \ {i}])

\* The loop that starts the initial batch, k tasks still to start.
RECURSIVE FixedInitialBatch(_, _)
FixedInitialBatch(st, k) ==
  IF k <= 0 \/ st.queue = <<>> THEN st
  ELSE FixedInitialBatch(FixedShiftNext(st), k - 1)

\* The locals after the synchronous code that led to st.
FixedUpdate(st) ==
  /\ taskQueue' = st.queue
  /\ results' = st.results
  /\ executing' = st.executing
  /\ requestsInWindow' = st.requestsInWindow
  /\ windowStartTime' = st.windowStartTime
  /\ phase' = st.phase
  /\ waitLeft' = st.waitLeft
  /\ starts' = st.starts
  /\ invoked' = st.invoked

\* The call: the initial batch, then the first test of the completion poll.
FixedStart ==
  /\ pc = "init"
  /\ FixedUpdate(FixedInitialBatch(FixedState, InitialBatchSize(taskQueue)))
  /\ IF executing' # {}
     THEN pc' = "polling" /\ pollLeft' = PollInterval
     ELSE pc' = "returned" /\ pollLeft' = 0
  /\ UNCHANGED << other, armed, options, generator, fluency, fnArgs, rpm, maxConcurrent,
                  requestTimestamps, activeTaskCount, processingQueue,
                  pqTimers, crashed, adviseLeft, defaultLeft, blockLeft,
                  outOfOrder >>

\* The timer of a task waiting for the next bucket fires: the bucket is
\* restarted, the request counted and asyncFn invoked.
FixedWake(i) ==
  /\ phase[i] = "waiting"
  /\ waitLeft[i] = 0
  /\ FixedUpdate(FixedInvoke([FixedState EXCEPT !.windowStartTime = 0,
                                                !.requestsInWindow = 0], i))
  /\ UNCHANGED << other, armed, options, generator, fluency, fnArgs, rpm, maxConcurrent,
                  requestTimestamps, activeTaskCount, processingQueue, pc,
                  pollLeft, pqTimers, crashed, adviseLeft, defaultLeft,
                  blockLeft, outOfOrder >>

\* The asyncFn invocation of task i settles: the result or the error is
\* stored, and the finally block takes the task out of executing and starts
\* the next one of the queue.
FixedSettle(i) ==
  /\ phase[i] = "running"
  /\ ~NeverSettles(fnArgs[i])
  /\ FixedUpdate(FixedFinally(
       [FixedState EXCEPT !.results =
                            WriteResult(@, i, IF Resolves(fnArgs[i])
                                              THEN ValueEntry(fnArgs[i])
                                              ELSE ErrorEntry(fnArgs[i])),
                          !.phase = [@ EXCEPT ![i] = "settled"]], i))
  /\ UNCHANGED << other, armed, options, generator, fluency, fnArgs, rpm, maxConcurrent,
                  requestTimestamps, activeTaskCount, processingQueue, pc,
                  pollLeft, pqTimers, crashed, adviseLeft, defaultLeft,
                  blockLeft, outOfOrder >>

\* The timer of the completion poll fires: while (executing.size > 0).
FixedPoll ==
  /\ pc = "polling"
  /\ pollLeft = 0
  /\ IF executing # {}
     THEN pc' = "polling" /\ pollLeft' = PollInterval
     ELSE pc' = "returned" /\ pollLeft' = 0
  /\ UNCHANGED << other, armed, options, generator, fluency, fixedVars, fnArgs, rpm, maxConcurrent,
                  requestTimestamps, taskQueue, results, activeTaskCount,
                  processingQueue, phase, waitLeft, pqTimers, crashed, starts,
                  invoked, adviseLeft, defaultLeft, blockLeft, outOfOrder >>

\* The ms left on the wait timers.
FixedTimersLeft == { waitLeft[i] : i \in { j \in Tasks : phase[j] = "waiting" } }

\* The next instants at which something changes: a wait timer comes due,
\* the bucket runs out, a start leaves the trailing window, the poll comes
\* due with nothing executing, or a running invocation has taken TaskStep
\* longer.  Time never moves past a wait timer.
FixedJumps ==
  { d \in FixedTimersLeft
          \cup { windowDuration + windowStartTime }
          \cup { windowDuration + t : t \in SeqRange(starts) }
          \cup (IF pc = "polling" /\ executing = {} THEN {pollLeft} ELSE {})
          \cup (IF \E i \in Tasks : phase[i] = "running" THEN {TaskStep} ELSE {})
    : d > 0 /\ \A left \in FixedTimersLeft : d <= left }

\* d ms pass.  A bucket that has run out stays run out.
FixedAdvance(d) ==
  /\ d \in FixedJumps
  /\ windowStartTime' = Max(0 - windowDuration, windowStartTime - d)
  /\ starts' = SelectSeq([k \in 1..Len(starts) |-> starts[k] - d],
                         LAMBDA t : 0 - t < windowDuration)
  /\ waitLeft' = [i \in Tasks |-> Elapse(waitLeft[i], d)]
  /\ pollLeft' = Elapse(pollLeft, d)
  /\ UNCHANGED << other, armed, options, generator, fluency, fnArgs, rpm, maxConcurrent,
                  requestTimestamps, taskQueue, results, activeTaskCount,
                  processingQueue, pc, phase, pqTimers, crashed, invoked,
                  adviseLeft, defaultLeft, blockLeft, outOfOrder,
                  requestsInWindow, executing >>

NextFixed ==
  \/ FixedStart
  \/ \E i \in Tasks : FixedWake(i)
  \/ \E i \in Tasks : FixedSettle(i)
  \/ FixedPoll
  \/ \E d \in FixedJumps : FixedAdvance(d)

\* Short batches over bad arguments, success and failure, and batches of
\* successes two tasks longer than MaxTasks, under a maxConcurrent up to one
\* more than MaxOpt.
InitFixed ==
  \E opts \in [rpm : ValidOptValues,
               maxConcurrent : { Given(v) : v \in 1..(MaxOpt + 1) }],
     args \in ArgLists({"notArray", "ok", "error"}, MaxTasks)
                \cup { [i \in 1..(MaxTasks + 2) |-> "ok"] } :
    InitWith(opts, args)

\* The fixed-bucket variant, positive limits.
SpecFixed == InitFixed /\ [][NextFixed]_vars

(* ------------------------------- claims ------------------------------- *)

Running == { i \in Tasks : phase[i] = "running" }

Admitted == { i \in Tasks : phase[i] \in {"scheduled", "waiting", "running"} }

\* The entry asyncFn(...args) leaves in results.
OutcomeEntry(args) == IF Resolves(args) THEN ValueEntry(args) ELSE ErrorEntry(args)

\* C1: for positive limits, at every instant the number of asyncFn
\* invocations that started in the trailing 60,000 ms (starts holds exactly
\* those) is at most rpm.
C1_RateBound ==
  (rpm > 0 /\ maxConcurrent > 0) => Len(starts) <= rpm

\* C1 witness: the window is full of rpm real starts and a further task,
\* already admitted, is waiting for a slot.
C1_Witness ==
  /\ rpm > 0
  /\ Len(starts) = rpm
  /\ \E i \in Tasks : phase[i] = "waiting" /\ waitLeft[i] > 0

\* C2: 0 <= activeTaskCount <= maxConcurrent, and at most maxConcurrent
\* invocations of asyncFn are started and not yet settled.
C2_ConcurrencyBound ==
  (rpm > 0 /\ maxConcurrent > 0) =>
    /\ 0 <= activeTaskCount
    /\ activeTaskCount <= maxConcurrent
    /\ Cardinality(Running) <= maxConcurrent

\* C2 witness: every slot is taken by a running invocation while a further
\* task is still pending.
C2_Witness ==
  /\ maxConcurrent > 0
  /\ activeTaskCount = maxConcurrent
  /\ Cardinality(Running) = maxConcurrent
  /\ Len(taskQueue) > 0

\* C3: when the call has returned, results[i] is the outcome of the one
\* invocation asyncFn(...fnArgs[i]), for every task with an argument array.
C3_IndexFidelity ==
  pc = "returned" =>
    \A i \in Tasks :
      IsArray(fnArgs[i]) =>
        invoked[i] = 1 /\ results[i] = OutcomeEntry(fnArgs[i])

\* C3 witness: a full batch of different outcomes has returned after its
\* tasks settled out of submission order.
C3_Witness ==
  /\ pc = "returned"
  /\ outOfOrder
  /\ N = MaxTasks
  /\ \A i, j \in Tasks : i # j => fnArgs[i] # fnArgs[j]
  /\ \A i \in Tasks : IsArray(fnArgs[i])

\* C4: once the call has returned the queue is empty, activeTaskCount is 0
\* and every task has settled with its result written; and in every state a
\* settled task has its result, the slots counted being exactly those of the
\* tasks admitted and not settled.
C4_ReturnsAfterAllSettled ==
  /\ pc = "returned" =>
       /\ taskQueue = <<>>
       /\ activeTaskCount = 0
       /\ \A i \in Tasks : phase[i] = "settled"
  /\ \A i \in Tasks : phase[i] = "settled" => results[i] # Undefined
  /\ maxConcurrent > 0 => activeTaskCount = Cardinality(Admitted)

\* C4 witness: a full batch has returned.
C4_Witness ==
  /\ pc = "returned"
  /\ N = MaxTasks
  /\ \A i \in Tasks : results[i] # Undefined

\* C5: the returned array has length N; for N = 0 the call returns in its
\* first step, with no invocation, no timestamp and no timer.
C5_ResultLength ==
  /\ pc = "returned" => Len(results) = Len(fnArgs)
  /\ (Len(fnArgs) = 0 /\ pc # "init") =>
       /\ pc = "returned"
       /\ results = <<>>
       /\ requestTimestamps = <<>>
       /\ starts = <<>>
       /\ pqTimers = <<>>
       /\ pollLeft = 0

\* C5 witness: the empty batch has returned.
C5_Witness == Len(fnArgs) = 0 /\ pc = "returned"

\* C6 (the claim as stated): a rejection of asyncFn for task k is recorded at
\* results[k] and never stops the dispatcher: the process goes on.
C6_FailureIsolation ==
  \A k \in Tasks :
    (phase[k] = "settled" /\ IsArray(fnArgs[k]) /\ ~Resolves(fnArgs[k])) =>
      results[k] = ErrorEntry(fnArgs[k]) /\ ~crashed

\* C7 (the claim as stated): while the pause a throttle signal advised has
\* not passed, no task leaves the queue and no asyncFn invocation starts.
C7_AdvisedPauseRespected ==
  [][adviseLeft > 0 => (taskQueue' = taskQueue /\ invoked' = invoked)]_vars

\* C8 (the claim as stated): for 30 seconds after a throttle signal whose
\* duration cannot be determined, no task leaves the queue and no asyncFn
\* invocation starts.
C8_DefaultPauseApplied ==
  [][defaultLeft > 0 => (taskQueue' = taskQueue /\ invoked' = invoked)]_vars

NonPositive(opt) == opt.given /\ opt.val <= 0

\* C9 (the claim as stated): a call with a non-positive rpm or maxConcurrent
\* goes no further than its rejection: it keeps the limits it was given,
\* admits no task and is never left polling.
C9_ConfigErrorRejects ==
  (NonPositive(options.rpm) \/ NonPositive(options.maxConcurrent)) =>
    /\ pc \in {"init", "rejected"}
    /\ taskQueue = NewTaskQueue(Len(fnArgs))
    /\ activeTaskCount = 0

\* C10 (the claim as stated, in the form a finite run refutes): with positive
\* limits, whenever nothing more can happen the call has returned with every
\* task settled.
C10_Termination ==
  (rpm > 0 /\ maxConcurrent > 0 /\ ~ENABLED Next) =>
    pc = "returned" /\ \A i \in Tasks : phase[i] = "settled"

\* A step in which task i settles.
Settles(i) == phase[i] # "settled" /\ phase'[i] = "settled"

\* C11: results[i] is written exactly once, by task i in the step in which
\* it settles: an index changes only in that step, from empty to an entry,
\* every settlement fills its index, and no other step touches results.
C11_WriteOnce ==
  [][\A i \in Tasks :
       /\ results'[i] # results[i] =>
            Settles(i) /\ results[i] = Undefined /\ results'[i] # Undefined
       /\ Settles(i) => results[i] = Undefined /\ results'[i] # Undefined
       /\ phase[i] = "settled" => results'[i] = results[i]]_vars

\* C11 witness: a full batch of different outcomes has been written, the
\* later task before the earlier one.
C11_Witness ==
  /\ N = MaxTasks
  /\ outOfOrder
  /\ \A i \in Tasks : phase[i] = "settled" /\ results[i] # Undefined
  /\ \A i, j \in Tasks : i # j => results[i] # results[j]

\* C12 (the claim as stated): the timestamps of the rate window younger
\* than 60,000 ms, those the capacity check counts, number at most rpm.
C12_WindowInvariant ==
  rpm > 0 => Len(Prune(requestTimestamps)) <= rpm

\* C13: an omitted options.rpm gives rpm = 10 and an omitted
\* options.maxConcurrent gives maxConcurrent = rpm; the run keeps to these
\* limits (at most 10 starts per window, at most maxConcurrent invocations in
\* flight) and never changes them.
C13_Defaults ==
  /\ [](/\ ~options.rpm.given => rpm = DefaultRpm /\ Len(starts) <= DefaultRpm
        /\ ~options.maxConcurrent.given =>
             maxConcurrent = rpm /\ Cardinality(Running) <= rpm)
  /\ [][rpm' = rpm /\ maxConcurrent' = maxConcurrent]_vars

\* C13 witness: with rpm omitted ten invocations have started within the
\* window and settled, and the eleventh task, with every concurrency slot
\* free, is held back by the window.
C13_Witness ==
  /\ ~options.rpm.given
  /\ Len(starts) = DefaultRpm
  /\ activeTaskCount = 0
  /\ Len(taskQueue) = 1
  /\ pqTimers # <<>>
  /\ pqTimers[1] > CompleteDelay

\* The tasks whose entry of fnArgs is not an array.
Malformed == { i \in Tasks : fnArgs[i] = "notArray" }

\* C14: for a task whose arguments are not an array, asyncFn is never
\* invoked and the task never waits for the window; the step that settles it
\* records an error entry at its index and nowhere else, leaves the rate
\* window and the other tasks alone, gives the slot back and sets the timer
\* that runs processQueue for the tasks that remain; and unless the process
\* has ended, the run only comes to rest once the call has returned.
C14_InvalidTaskInput ==
  /\ [](/\ \A i \in Malformed :
             /\ invoked[i] = 0
             /\ phase[i] \notin {"waiting", "running"}
             /\ phase[i] = "settled" => results[i] = ErrorEntry(fnArgs[i])
        /\ (Malformed # {} /\ ~crashed /\ ~ENABLED Next) => pc = "returned")
  /\ [][\A i \in Malformed :
         Settles(i) =>
           /\ requestTimestamps' = requestTimestamps
           /\ starts' = starts
           /\ activeTaskCount' = activeTaskCount - 1
           /\ taskQueue' = taskQueue
           /\ pqTimers' = PushSorted(pqTimers, CompleteDelay)
           /\ \A k \in Tasks \ {i} :
                results'[k] = results[k] /\ phase'[k] = phase[k]]_vars

\* C14 witness: the call has returned from a batch whose first entry is
\* not an array and whose second task ran and succeeded.
C14_Witness ==
  /\ pc = "returned"
  /\ N = MaxTasks
  /\ fnArgs[1] = "notArray"
  /\ results[1] = ErrorEntry("notArray")
  /\ invoked[1] = 0
  /\ fnArgs[N] = "ok"
  /\ invoked[N] = 1
  /\ results[N] = ValueEntry("ok")

\* What fnArgs alone decides about the returned array: the outcome of
\* asyncFn(...fnArgs[i]) at index i, an error entry for a malformed entry.
ResultsOf(args) ==
  [i \in 1..Len(args) |->
     IF IsArray(args[i]) THEN OutcomeEntry(args[i]) ELSE ErrorEntry(args[i])]

\* C15: whatever the schedule and the limits, the array a run returns is the
\* one fnArgs decides; two runs on the same fnArgs therefore return equal
\* arrays.
C15_Determinism == pc = "returned" => results = ResultsOf(fnArgs)

\* C15 witness: under rpm = 1 the second of two tasks with different
\* outcomes started a window later than the first and still settled before
\* it, and the call has returned.
C15_Witness ==
  /\ pc = "returned"
  /\ rpm = 1
  /\ N = MaxTasks
  /\ outOfOrder
  /\ \A i \in Tasks : invoked[i] = 1
  /\ OutcomeEntry(fnArgs[1]) # OutcomeEntry(fnArgs[N])

\* The dispatcher state of a call: its rate window, active count, queue
\* and results.
DispatcherOf(call) ==
  [requestTimestamps |-> WindowOf(call),
   activeTaskCount |-> call.activeTaskCount,
   taskQueue |-> call.taskQueue,
   results |-> call.results]

\* Time passes.
IsTimeStep == \E d \in Jumps : Advance(d)

\* C16: with two calls in progress, every step of one call (admission,
\* timestamp recording, settlement, throttle cooldown) leaves the window,
\* active count, queue and results of the other as they were; turning from
\* one call to the other changes neither call's state, and the passage of
\* time changes no count, queue or result.
C16_PerInstanceState ==
  [][other # <<>> =>
       /\ other' # <<>>
       /\ (~Switch /\ ~IsTimeStep) =>
            DispatcherOf(other[1])' = DispatcherOf(other[1])
       /\ Switch =>
            /\ DispatcherOf(other[1])' = DispatcherOf(CallState)
            /\ DispatcherOf(CallState)' = DispatcherOf(other[1])
       /\ IsTimeStep =>
            /\ other'[1].activeTaskCount = other[1].activeTaskCount
            /\ other'[1].taskQueue = other[1].taskQueue
            /\ other'[1].results = other[1].results]_vars

\* C16 witness: one call starts an invocation at this instant while the
\* other call, throttled, is in its cooldown with its window blocked.
C16_Witness ==
  /\ other # <<>>
  /\ other[1].adviseLeft > 0
  /\ Len(Prune(other[1].requestTimestamps)) > other[1].rpm
  /\ starts # <<>>
  /\ starts[Len(starts)] = 0
  /\ Running # {}

\* The tasks still in the queue.
Pending == { i \in Tasks : phase[i] = "pending" }

\* C17: the queue always holds the last indices in ascending order, the
\* pending tasks are exactly those in it, and a step removes tasks only from
\* its head; so no task is admitted while an earlier one is pending.
C17_FifoAdmission ==
  /\ [](/\ taskQueue = [k \in 1..Len(taskQueue) |-> N - Len(taskQueue) + k]
        /\ Pending = SeqRange(taskQueue)
        /\ \A i, j \in Tasks : (i < j /\ j \notin Pending) => i \notin Pending)
  /\ [][\E k \in 0..Len(taskQueue) :
         taskQueue' = SubSeq(taskQueue, k + 1, Len(taskQueue))]_vars

\* C17 witness: every task but the last has been admitted and has settled,
\* and the last is still pending.
C17_Witness ==
  /\ N = MaxTasks
  /\ taskQueue = << N >>
  /\ \A i \in Tasks : i < N => phase[i] = "settled"

\* The tasks admitted and waiting for a slot of the rate window.
Waiting == { i \in Tasks : phase[i] = "waiting" }

\* C18 (the claim as stated): in a step that invokes asyncFn for task j, no
\* earlier task with an argument array is pending or waiting for a slot.
C18_FifoStart ==
  [][\A j \in Tasks :
       invoked'[j] > invoked[j] =>
         \A i \in Tasks :
           (i < j /\ IsArray(fnArgs[i])) => i \notin Pending \cup Waiting]_vars

\* C19 (the claim as stated): a task that has left the queue and is counted
\* in activeTaskCount has its start timestamp recorded, the zero-delay
\* hand-over to executeTask apart; no counted task waits for the rate window.
C19_SlotBeforePop ==
  \A i \in Tasks :
    (IsArray(fnArgs[i]) /\ i \in Admitted) =>
      /\ i \notin Waiting
      /\ phase[i] = "scheduled" \/ invoked[i] = 1

\* A step in which the wait timer of task i fires.
Wakes(i) ==
  /\ phase[i] = "waiting"
  /\ waitLeft[i] = 0
  /\ phase'[i] # "waiting" \/ waitLeft'[i] > 0

\* C20: a step records a start for a task only when the window, pruned in
\* that step, holds fewer than rpm timestamps, and it records one start; a
\* task that wakes to a full window records nothing and waits again; so of
\* the tasks that wake for one freed slot only as many start as there are
\* free slots, and the starts of a window never exceed rpm.
C20_RecheckAfterWake ==
  /\ [][\A i \in Tasks :
         /\ invoked'[i] > invoked[i] =>
              /\ Len(Prune(requestTimestamps)) < rpm
              /\ requestTimestamps' = PushSorted(Prune(requestTimestamps), 0)
              /\ phase'[i] = "running"
              /\ \A k \in Tasks \ {i} : invoked'[k] = invoked[k]
         /\ (Wakes(i) /\ Len(Prune(requestTimestamps)) >= rpm) =>
              /\ phase'[i] = "waiting"
              /\ waitLeft'[i] > 0
              /\ invoked' = invoked
              /\ starts' = starts]_vars
  /\ [](Len(starts) <= rpm)

\* C20 witness: two tasks woke for the one slot of the window at this
\* instant; the earlier one has started and the later one waits again, for
\* a whole window.
C20_Witness ==
  /\ rpm = 1
  /\ \E i, j \in Tasks :
       /\ 1 < j
       /\ j < i
       /\ phase[j] = "running"
       /\ starts = << 0 >>
       /\ phase[i] = "waiting"
       /\ waitLeft[i] = windowDuration + SlotBuffer
       /\ invoked[i] = 0

\* The timestamps of the window less than 60,000 ms old (now = 0).
Young == { k \in 1..Len(requestTimestamps) : requestTimestamps[k] > 0 - windowDuration }

\* What the claim says getTimeUntilNextSlot returns now.
SlotWait ==
  IF Cardinality(Young) < rpm THEN 0
  ELSE LET oldest == CHOOSE k \in Young :
                       \A m \in Young : requestTimestamps[k] <= requestTimestamps[m]
       IN (requestTimestamps[oldest] + windowDuration - 0) + SlotBuffer

\* C21: for rpm > 0, in every reachable state getTimeUntilNextSlot keeps
\* exactly the timestamps less than 60,000 ms old, in their order, and
\* returns 0 when fewer than rpm remain and otherwise the age the oldest of
\* them still lacks plus 100 ms, more than 0; and a task that goes to wait
\* arms its timer with that value and leaves the pruned window behind.
C21_TimeUntilNextSlot ==
  /\ [](rpm > 0 =>
          /\ Len(Prune(requestTimestamps)) = Cardinality(Young)
          /\ \A k \in 1..Len(Prune(requestTimestamps)) :
               /\ Prune(requestTimestamps)[k] > 0 - windowDuration
               /\ Prune(requestTimestamps)[k] =
                    requestTimestamps[k + Len(requestTimestamps) - Cardinality(Young)]
          /\ WaitTime(Prune(requestTimestamps)) = SlotWait
          /\ (SlotWait = 0) = (Cardinality(Young) < rpm)
          /\ SlotWait # 0 => SlotWait > SlotBuffer)
  /\ [][\A i \in Tasks :
         (rpm > 0 /\ phase'[i] = "waiting" /\ waitLeft'[i] > waitLeft[i]) =>
           /\ waitLeft'[i] = SlotWait
           /\ requestTimestamps' = Prune(requestTimestamps)
           /\ Len(requestTimestamps') = Cardinality(Young)]_vars

\* C21 witness: the window holds a timestamp that has just turned 60,000 ms
\* old next to rpm younger ones, the blocking timestamps of a throttle
\* signal, and a task is waiting for the oldest of those to leave.
C21_Witness ==
  /\ requestTimestamps # <<>>
  /\ requestTimestamps[1] = 0 - windowDuration
  /\ Cardinality(Young) = rpm
  /\ SlotWait > SlotBuffer
  /\ \E i \in Tasks : phase[i] = "waiting" /\ waitLeft[i] > 0

\* The poems for which callGeminiApi fails with a throttle error.
ThrottledPoems ==
  { i \in Tasks : /\ fnArgs[i] \in PoemKinds
                  /\ ~ApiResolves(fnArgs[i])
                  /\ ApiRejectionOf(fnArgs[i]).status = TooManyRequests }

\* C22 (the claim as stated): the step in which a poem whose callGeminiApi
\* call failed with a 429 settles records an error entry at its index and
\* blocks the rate window; and while the pause the server advised has not
\* passed, no poem leaves the queue and no call starts.
C22_PoemThrottleSignal ==
  [][\A i \in ThrottledPoems :
       /\ Settles(i) =>
            /\ results'[i] = ErrorEntry(fnArgs[i])
            /\ Len(Prune(requestTimestamps')) >= rpm
       /\ (phase[i] = "settled" /\ adviseLeft > 0) =>
            (taskQueue' = taskQueue /\ invoked' = invoked)]_vars

\* The tasks whose invocation never settles.
Stuck == { i \in Tasks : fnArgs[i] = "stuck" }

\* C23: with a task whose invocation never settles, the call never returns;
\* once invoked the task stays in flight and is counted in activeTaskCount
\* once, like every task admitted and not settled; and for maxConcurrent >= 2
\* the run reaches, for good, the state in which every other task has
\* settled with its result and the stuck task alone holds a slot.
C23_StuckTask ==
  /\ [](Stuck # {} =>
          /\ pc # "returned"
          /\ activeTaskCount = Cardinality(Admitted)
          /\ \A i \in Stuck :
               /\ phase[i] # "settled"
               /\ invoked[i] = 1 => (phase[i] = "running" /\ activeTaskCount >= 1))
  /\ [][\A i \in Stuck : phase[i] = "running" => phase'[i] = "running"]_vars
  /\ <>[](maxConcurrent >= 2 =>
            /\ \A i \in Stuck : phase[i] = "running"
            /\ \A j \in Tasks \ Stuck :
                 phase[j] = "settled" /\ results[j] = ValueEntry(fnArgs[j])
            /\ activeTaskCount = 1
            /\ taskQueue = <<>>
            /\ pc = "polling")

\* C23 witness: under maxConcurrent >= 2 the first task is stuck in flight,
\* every later task was admitted after it and has settled, and the call is
\* still polling with one slot taken.
C23_Witness ==
  /\ maxConcurrent >= 2
  /\ N > maxConcurrent
  /\ Stuck = {1}
  /\ phase[1] = "running"
  /\ \A j \in Tasks \ Stuck : phase[j] = "settled"
  /\ activeTaskCount = 1
  /\ pc = "polling"

\* C24: asyncFn is invoked at most once per task: never for a task whose
\* arguments are not an array, once for every task with an argument array
\* that is in flight or has settled, hence once for each when the call
\* returns; the queue only ever shrinks, and a settled task, failed or not,
\* throttled or not, stays settled, stays out of the queue and is not invoked
\* again.
C24_AtMostOnce ==
  /\ [](\A i \in Tasks :
          /\ invoked[i] <= 1
          /\ fnArgs[i] = "notArray" => invoked[i] = 0
          /\ (fnArgs[i] # "notArray" /\ phase[i] \in {"running", "settled"}) =>
               invoked[i] = 1
          /\ (fnArgs[i] # "notArray" /\ pc = "returned") => invoked[i] = 1)
  /\ [][/\ Len(taskQueue') <= Len(taskQueue)
        /\ \A i \in Tasks :
             /\ invoked'[i] >= invoked[i]
             /\ phase[i] = "settled" =>
                  /\ phase'[i] = "settled"
                  /\ invoked'[i] = invoked[i]
                  /\ i \notin SeqRange(taskQueue')]_vars

\* C24 witness: under rpm = 1 the first task failed with a throttle signal,
\* the second ran after it, and the call has returned with one invocation
\* each.
C24_Witness ==
  /\ pc = "returned"
  /\ rpm = 1
  /\ N = MaxTasks
  /\ fnArgs[1] = "429:1s"
  /\ results[1] = ErrorEntry("429:1s")
  /\ fnArgs[N] = "ok"
  /\ \A i \in Tasks : invoked[i] = 1

\* The indices taskQueue holds.
InQueue == SeqRange(taskQueue)

\* The indices whose entry of results has been written.
Completed == { i \in Tasks : results[i] # Undefined }

\* C25: the indices in taskQueue (each there once), the tasks popped and
\* not yet completed, and the tasks whose result is written are pairwise
\* disjoint and together make up all the indices; activeTaskCount is the
\* number of the second set, so the three counts add up to N.
C25_TaskConservation ==
  /\ Cardinality(InQueue) = Len(taskQueue)
  /\ InQueue \cup Admitted \cup Completed = Tasks
  /\ InQueue \cap Admitted = {}
  /\ InQueue \cap Completed = {}
  /\ Admitted \cap Completed = {}
  /\ activeTaskCount = Cardinality(Admitted)
  /\ Len(taskQueue) + activeTaskCount + Cardinality(Completed) = N

\* C25 witness: with one slot, the first task was popped, failed on its
\* malformed arguments and completed, the second has been popped and is in
\* flight, and the queue is empty.
C25_Witness ==
  /\ maxConcurrent = 1
  /\ N = MaxTasks
  /\ fnArgs[1] = "notArray"
  /\ Completed = 1..(N - 1)
  /\ phase[N] = "running"
  /\ activeTaskCount = 1
  /\ taskQueue = <<>>

\* C26: for positive limits, once processQueue() has run for the first time,
\* whenever the queue is not empty a processQueue timer is pending or a task
\* is active; processQueue is never left in the middle of a run; and every
\* step that completes a task sets a processQueue timer of 50 ms.
C26_NoLostWakeup ==
  /\ []((rpm > 0 /\ maxConcurrent > 0 /\ pc # "init") =>
          /\ ~processingQueue
          /\ taskQueue # <<>> => (pqTimers # <<>> \/ activeTaskCount > 0)
          /\ activeTaskCount > 0 => Admitted # {})
  /\ [][(rpm > 0 /\ maxConcurrent > 0) =>
          \A i \in Tasks :
            Settles(i) =>
              \E k \in 1..Len(pqTimers') : pqTimers'[k] = CompleteDelay]_vars

\* C26 witness: no task is active, a task is pending behind a full window,
\* and the only thing that will admit it is the timer processQueue set for
\* the time the window frees.
C26_Witness ==
  /\ rpm > 0
  /\ maxConcurrent > 0
  /\ activeTaskCount = 0
  /\ taskQueue # <<>>
  /\ Len(pqTimers) = 1
  /\ pqTimers[1] > CompleteDelay

\* The timestamps that stay in the window for at least the ms given.
Lasting(ms) ==
  { k \in 1..Len(requestTimestamps) :
      requestTimestamps[k] + windowDuration >= ms }

\* C27: while a pause the catch block has applied has not passed, whatever
\* happened since (a further signal with a shorter pause, a settlement,
\* pruning, a waiter waking), the window holds at least rpm timestamps that
\* stay in it until the pause ends, getTimeUntilNextSlot returns a wait, and
\* no step removes a task from the queue or invokes asyncFn.
C27_CooldownNotShortened ==
  /\ [](blockLeft > 0 =>
          /\ Cardinality(Lasting(blockLeft)) >= rpm
          /\ WaitTime(Prune(requestTimestamps)) > 0)
  /\ [][blockLeft > 0 => (taskQueue' = taskQueue /\ invoked' = invoked)]_vars

\* C27 witness: a signal with the default pause of 30 s was followed by one
\* advising 1 s, which has settled too; more than that 1 s of the first
\* pause is left and a task is pending.
C27_Witness ==
  /\ N > 2
  /\ fnArgs[1] = "429:numberDelay"
  /\ fnArgs[2] = "429:1s"
  /\ phase[1] = "settled"
  /\ phase[2] = "settled"
  /\ blockLeft > CooldownOf(RejectionOf("429:1s"))
  /\ blockLeft < DefaultRetryMs
  /\ taskQueue # <<>>

\* C28 (the claim as stated): whatever asyncFn rejects with, the step in
\* which the task settles records the error entry at its index, gives back
\* one slot, and lets no error out of executeTask: the process goes on as
\* before.
C28_ExecuteTaskNeverFails ==
  [][\A i \in Tasks :
       (Settles(i) /\ fnArgs[i] # "notArray" /\ ~Resolves(fnArgs[i])) =>
         /\ results' = WriteResult(results, i, ErrorEntry(fnArgs[i]))
         /\ activeTaskCount' = activeTaskCount - 1
         /\ crashed' = crashed]_vars

\* C29 (the claim as stated): in the fixed-bucket variant, for positive
\* limits, at every instant the asyncFn invocations started in the
\* trailing 60,000 ms number at most 2 x rpm.
C29_FixedRateBound ==
  (rpm > 0 /\ maxConcurrent > 0) => Len(starts) <= 2 * rpm

\* The tasks the phases say are in progress: waiting for the next bucket or
\* in flight.
InProgress == { i \in Tasks : phase[i] \in {"waiting", "running"} }

\* C30: in the fixed-bucket variant, for positive limits, executing holds
\* exactly the tasks waiting for the next bucket or in flight, at most
\* maxConcurrent of them; and after the initial batch a step that brings a
\* task into the set takes another one out, so the set never grows.
C30_FixedExecutingBound ==
  /\ []((rpm > 0 /\ maxConcurrent > 0) =>
          /\ executing = InProgress
          /\ Cardinality(executing) <= maxConcurrent
          /\ executing \cap SeqRange(taskQueue) = {})
  /\ [][(rpm > 0 /\ maxConcurrent > 0 /\ pc # "init") =>
          /\ Cardinality(executing') <= Cardinality(executing)
          /\ executing' \ executing # {} => executing \ executing' # {}]_vars

\* C30 witness: under rpm = 1 every one of the maxConcurrent >= 2 places of
\* executing is taken, one by a task in flight (a later task, started when
\* the first left the set) and the others by tasks waiting for the next
\* bucket, and a task is still in the queue.
C30_Witness ==
  /\ rpm = 1
  /\ maxConcurrent >= 2
  /\ Cardinality(executing) = maxConcurrent
  /\ phase[1] = "settled"
  /\ \E i \in executing : phase[i] = "waiting" /\ waitLeft[i] > 0
  /\ \E i \in executing : phase[i] = "running"
  /\ taskQueue # <<>>

\* C31: in the fixed-bucket variant, for positive limits, once the call has
\* started executing is not empty while the queue is not; when the call has
\* returned the queue and executing are empty, every task has settled and
\* results holds at each index the outcome fnArgs decides for it; and the
\* run comes to rest only when the call has returned.
C31_FixedReturnsAfterAllSettled ==
  (rpm > 0 /\ maxConcurrent > 0) =>
    /\ (pc # "init" /\ taskQueue # <<>>) => executing # {}
    /\ pc = "returned" =>
         /\ taskQueue = <<>>
         /\ executing = {}
         /\ \A i \in Tasks : phase[i] = "settled"
         /\ results = ResultsOf(fnArgs)
    /\ ~ENABLED NextFixed => pc = "returned"

\* C31 witness: with one place in executing, a batch whose first entry is
\* malformed and whose second task fails has returned, each task started by
\* the end of the one before.
C31_Witness ==
  /\ pc = "returned"
  /\ maxConcurrent = 1
  /\ N = MaxTasks
  /\ fnArgs[1] = "notArray"
  /\ fnArgs[N] = "error"
  /\ results[N] = ErrorEntry("error")
  /\ invoked[N] = 1
  /\ requestsInWindow > 0

\* C32: the summary.json the batch generator writes satisfies successCount +
\* failCount = totalPoems, and its results list has one entry for each of
\* the totalPoems selected poems.
C32_SummaryConsistency ==
  generator.stage = "done" =>
    LET summary == generator.summary[1] IN
    /\ summary.successCount + summary.failCount = summary.totalPoems
    /\ Len(summary.results) = summary.totalPoems
\* The poems a run started in this state would submit.
Resubmitted ==
  PoemsToProcess(generator.poems, SelectedPoems(generator), generator.files)

\* The poems of this run whose call failed, in the order of submission.
FailedPoems ==
  SelectSeq(generator.poemsToProcess,
            LAMBDA p : ~ApiResolves(PoemArgs(generator.poems[p])))

\* C33: a poem is submitted only if it has no output file when the run
\* starts, every poem whose call succeeded has its output file, and when the
\* run is over a second run would submit exactly the poems whose call failed
\* (none when every call succeeded).
C33_ResumeIdempotence ==
  /\ [][BatchGenerate =>
          \A i \in 1..Len(generator'.poemsToProcess) :
            OutputFile(generator.poems[generator'.poemsToProcess[i]])
              \notin generator.files]_vars
  /\ [](generator.stage \in { "batch", "done" } =>
          \A i \in Tasks :
            (phase[i] = "settled" /\ ApiResolves(fnArgs[i])) =>
              OutputFile(generator.poems[generator.poemsToProcess[i]])
                \in generator.files)
  /\ [](generator.stage = "done" => Resubmitted = FailedPoems)
\* The integer START_INDEX / END_INDEX stands for: the default when it is not
\* set, and for START_INDEX also when it is not a number.
ConfiguredIndex(env, default) ==
  IF env.set /\ env.numeric THEN env.val ELSE default

\* C34: once the generator has submitted, with START_INDEX = s and END_INDEX
\* = e integers (or unset: 0 and -1), every poem submitted is at one of the
\* 0-based positions s .. min(e, number of poems) - 1 of the corpus, where a
\* negative e stands for the number of poems: then the selection runs from
\* position s to the last poem; and with s = 0 and e = 3 the poems submitted
\* are among the first three.
C34_RangeSelection ==
  LET length == Len(generator.poems)
      s == ConfiguredIndex(generator.START_INDEX, 0)
      e == ConfiguredIndex(generator.END_INDEX, 0 - 1)
      last == IF e < 0 THEN length ELSE Min(e, length) IN
  (generator.stage = "batch"
     /\ (generator.END_INDEX.set => generator.END_INDEX.numeric)) =>
    /\ \A i \in 1..Len(generator.poemsToProcess) :
         /\ s <= generator.poemsToProcess[i] - 1
         /\ generator.poemsToProcess[i] - 1 <= last - 1
    /\ (e < 0 /\ s \in 0..length) =>
         generator.selectedPoems = [k \in 1..(length - s) |-> s + k]
    /\ (s = 0 /\ e = 3) =>
         /\ Len(fnArgs) <= 3
         /\ \A i \in 1..Len(generator.poemsToProcess) :
              generator.poemsToProcess[i] \in 1..3

\* C34 witness: with START_INDEX=0 and END_INDEX=3, a corpus of four poems
\* and no output file, the first three poems have been submitted.
C34_Witness ==
  /\ generator.stage = "batch"
  /\ generator.START_INDEX = EnvInt(0)
  /\ generator.END_INDEX = EnvInt(3)
  /\ Len(generator.poems) = 4
  /\ generator.poemsToProcess = << 1, 2, 3 >>
  /\ Len(fnArgs) = 3
\* C35: with rpm >= maxConcurrent > 0 and at least maxConcurrent tasks with
\* argument arrays, as long as no invocation has settled (the invocations
\* overlap) and once the executeTask timers set by the call have fired,
\* exactly maxConcurrent invocations are running: the dispatcher does not
\* hold tasks back below the configured concurrency.
C35_ConcurrencyAttained ==
  ( /\ maxConcurrent > 0
    /\ rpm >= maxConcurrent
    /\ N >= maxConcurrent
    /\ \A i \in Tasks : IsArray(fnArgs[i])
    /\ pc # "init"
    /\ \A i \in Tasks : phase[i] \notin { "scheduled", "settled" } ) =>
  /\ Cardinality(Running) = maxConcurrent
  /\ \A i \in Running : invoked[i] = 1

\* C35 witness: with maxConcurrent = rpm = MaxOpt, MaxOpt invocations are
\* running at once, all started at the same instant, none settled yet.
C35_Witness ==
  /\ maxConcurrent = MaxOpt
  /\ rpm = MaxOpt
  /\ MaxOpt >= 2
  /\ Cardinality(Running) = maxConcurrent
  /\ \A i \in Tasks : phase[i] \notin { "scheduled", "settled" }
  /\ Len(starts) = maxConcurrent
  /\ \A k \in 1..Len(starts) : starts[k] = 0
\* The invocations started within the last GEMINI_TIMEOUT ms.
StartedWithinTimeout ==
  { k \in 1..Len(starts) : 0 - starts[k] <= GeminiTimeout }

\* The running invocations whose request the remote service never answers.
Unanswered == { i \in Running : ApiHangs(fnArgs[i]) }

\* C36: the timeout the batch generator passes to callGeminiApi bounds each
\* call, so a request that is never answered settles as a failure when
\* GEMINI_TIMEOUT ms have passed: there are never more unanswered invocations
\* running than invocations started within the last GEMINI_TIMEOUT ms.
C36_CallTimeout ==
  generator.stage = "batch" =>
    Cardinality(Unanswered) <= Cardinality(StartedWithinTimeout)

\* C37: evaluateToneFluency3(a, b, c) throws when one of a, b, c is not a tone
\* 1..4; for tones it returns a score in 0..100 that is 40 exactly when
\* a = b = c and above 40 otherwise, and 100 for every triple whose
\* ping/ze pattern (tones 1, 2 ping, tones 3, 4 ze) is PPZ, ZPP, PZP or ZPZ.
C37_ToneFluency3 ==
  fluency.called =>
    LET a == fluency.a
        b == fluency.b
        c == fluency.c
        ping(t) == t \in { 1, 2 }
        alternating ==
          \/ ping(a) /\ ping(b) /\ ~ping(c)
          \/ ~ping(a) /\ ping(b) /\ ping(c)
          \/ ping(a) /\ ~ping(b) /\ ping(c)
          \/ ~ping(a) /\ ping(b) /\ ~ping(c) IN
    IF { a, b, c } \subseteq 1..4
    THEN /\ ~fluency.outcome.thrown
         /\ fluency.outcome.value \in 0..100
         /\ fluency.outcome.value = 40 <=> (a = b /\ b = c)
         /\ ~(a = b /\ b = c) => fluency.outcome.value > 40
         /\ alternating => fluency.outcome.value = 100
    ELSE fluency.outcome.thrown

\* C37 witness: the call on tones 1, 2, 3 (PPZ) has returned 100.
C37_Witness ==
  /\ fluency.called
  /\ fluency.a = 1 /\ fluency.b = 2 /\ fluency.c = 3
  /\ fluency.outcome = Returned(100)

=============================================================================
